---- MODULE Spec2Model ----
(***************************************************************************)
(* BLE-to-ADB bridge: the ADB device side (adb_protocol.cpp bus_loop and   *)
(* handle_command, the keyboard and mouse emulators) fed by the two event  *)
(* queues of event_queue.cpp.                                              *)
(***************************************************************************)
EXTENDS Integers, Sequences, FiniteSets, TLC

(* ----- program constants (include/config.h, adb_keyboard.cpp) ---------- *)
ADB_ATTN_MIN_US == 560
ADB_ATTN_MAX_US == 1040
ADB_RESET_MIN_US == 2800
ADB_ADDR_KEYBOARD == 2
ADB_ADDR_MOUSE == 3
ADB_CMD_RESET == 0
ADB_CMD_FLUSH == 1
ADB_CMD_LISTEN == 2
ADB_CMD_TALK == 3
ADB_HANDLER_KEYBOARD == 2
ADB_HANDLER_MOUSE == 2
KBD_QUEUE_SIZE == 32
MOUSE_QUEUE_SIZE == 64
KEY_BUF_SIZE == 32
YIELD_PERIOD == 256

(* ----- bounds of the model --------------------------------------------- *)
\* low pulses the host drives in one behaviour of Spec
MaxPulses == 2
\* key events / mouse events the BLE side pushes in one behaviour of Spec
MaxKbdPush == 1
MaxMousePush == 1

(* ----- fixed-width arithmetic ------------------------------------------ *)
RECURSIVE BitOr(_, _)
BitOr(a, b) ==
    IF a = 0 THEN b
    ELSE IF b = 0 THEN a
    ELSE (IF (a % 2 = 1) \/ (b % 2 = 1) THEN 1 ELSE 0) + 2 * BitOr(a \div 2, b \div 2)

\* int16_t narrowing of an int result (two's complement wrap)
Wrap16(x) == ((x + 32768) % 65536) - 32768

\* (x & 0x7F) of a signed value promoted to int
Low7(x) == x % 128

(* ----- adb_keyboard.cpp ------------------------------------------------ *)
buf_empty(head, tail) == head = tail

buf_full(head, tail) == ((head + 1) % KEY_BUF_SIZE) = tail

\* a faulty variant of the packing that leaves the release bit out (C17 must
\* reject it)
KeyByte_no_release_bit(evt) == evt.adb_keycode % 128

\* the byte process_queue builds from a KbdEvent
KeyByte(evt) == BitOr(IF evt.released THEN 128 ELSE 0, evt.adb_keycode % 128)

\* process_queue: every queued event, oldest first, through buf_push.  buf_push
\* stores at head and advances it unless buf_full, and then drops the byte; the
\* tail does not move during the loop, so event i is stored exactly when the
\* ring was not full before each of the pushes 1..i.
KbdDrain(q, ring, tail) ==
    LET stored == {i \in 1..Len(q) :
                      \A j \in 1..i :
                          ~buf_full((ring.head + j - 1) % KEY_BUF_SIZE, tail)}
        n == Cardinality(stored)
        slot(i) == (i - ring.head) % KEY_BUF_SIZE
    IN  [buf  |-> [i \in 0..(KEY_BUF_SIZE - 1) |->
                      IF slot(i) < n THEN KeyByte(q[slot(i) + 1]) ELSE ring.buf[i]],
         head |-> (ring.head + n) % KEY_BUF_SIZE]

\* a faulty variant of ListenAddress that refuses only 0 (C8 must reject it)
ListenAddress_only_zero(data, cur) ==
    LET new_addr == data \div 256
    IN  IF new_addr # 0 THEN new_addr % 16 ELSE cur

\* Listen R3, high byte: the address after the write
ListenAddress(data, cur) ==
    LET new_addr == data \div 256
    IN  IF new_addr # 0 /\ new_addr # 254 THEN new_addr % 16 ELSE cur

\* a faulty variant of ListenHandler that refuses only 0 (C9 must reject it)
ListenHandler_only_zero(data, cur) ==
    LET new_handler == data % 256
    IN  IF new_handler # 0 THEN new_handler ELSE cur

\* Listen R3, low byte: the handler after the write
ListenHandler(data, cur) ==
    LET new_handler == data % 256
    IN  IF new_handler # 0 /\ new_handler # 254 THEN new_handler ELSE cur

\* Talk R3: ((0x60 | (address & 0x0F)) << 8) | handler
TalkR3Data(address, handler) ==
    BitOr(BitOr(96, address % 16) * 256, handler)

(* ----- adb_mouse.cpp --------------------------------------------------- *)
\* a faulty variant of mouse_idle that always has a report (C7 must reject it)
mouse_idle_never(dx, dy, changed) == FALSE

\* handle_talk R0: nothing to report
mouse_idle(dx, dy, changed) == dx = 0 /\ dy = 0 /\ ~changed

\* a faulty variant of clamp7 that reports nothing for a delta within the 7-bit
\* range (C19 must reject it)
clamp7_large_only(val) == IF val > 63 THEN 63 ELSE IF val < -64 THEN -64 ELSE 0

clamp7(val) == IF val > 63 THEN 63 ELSE IF val < -64 THEN -64 ELSE val

\* process_queue's loop over a stretch of events, summed up: the deltas added, the
\* first and the last button, whether the button differs between two neighbours,
\* and the number of events. A stretch is the sum of its two halves, which keeps
\* the evaluation shallow for a queue of 64 events.
RECURSIVE MouseStretch(_)
MouseStretch(q) ==
    IF Len(q) = 1
    THEN [dx |-> q[1].dx, dy |-> q[1].dy, first |-> q[1].button, last |-> q[1].button,
          flips |-> FALSE, n |-> 1]
    ELSE LET half == Len(q) \div 2
             a == MouseStretch(SubSeq(q, 1, half))
             b == MouseStretch(SubSeq(q, half + 1, Len(q)))
         IN  [dx |-> a.dx + b.dx, dy |-> a.dy + b.dy, first |-> a.first, last |-> b.last,
              flips |-> a.flips \/ b.flips \/ a.last # b.first, n |-> a.n + b.n]

\* process_queue: the queued events folded into [dx, dy, pressed, changed, n]. Each
\* event adds its deltas to the int16_t accumulators and, when its button differs
\* from s_button_pressed, stores it and sets s_button_changed.
MouseDrain(q, m) ==
    IF q = <<>> THEN m
    ELSE LET s == MouseStretch(q)
         IN  [dx      |-> Wrap16(m.dx + s.dx),
              dy      |-> Wrap16(m.dy + s.dy),
              pressed |-> s.last,
              changed |-> m.changed \/ s.flips \/ s.first # m.pressed,
              n       |-> m.n + s.n]

\* a faulty variant of the packing with the two bytes swapped (C18 must reject it)
MouseTalkData_x_first(dx, dy, pressed) ==
    LET button_bit == IF pressed THEN 0 ELSE 128
        byte0 == BitOr(button_bit, Low7(clamp7(dy)))
        byte1 == BitOr(128, Low7(clamp7(dx)))
    IN  BitOr(byte1 * 256, byte0)

\* Talk R0 data word from the (drained) accumulators and the button state
MouseTalkData(dx, dy, pressed) ==
    LET button_bit == IF pressed THEN 0 ELSE 128
        byte0 == BitOr(button_bit, Low7(clamp7(dy)))
        byte1 == BitOr(128, Low7(clamp7(dx)))
    IN  BitOr(byte0 * 256, byte1)

(* ----- adb_protocol.cpp: pure parts ------------------------------------ *)
ADB_BIT_0_LOW_US == 65
ADB_BIT_0_HIGH_US == 35
ADB_BIT_1_LOW_US == 35
ADB_BIT_1_HIGH_US == 65
ADB_SRQ_LOW_US == 300

\* a faulty variant of send_bit that keeps driving through the high phase of a
\* '0' bit (C27 must reject it)
send_bit_holds_zero(bit) ==
    IF bit = 1
    THEN << [call |-> "drive_low", us |-> ADB_BIT_1_LOW_US],
            [call |-> "release", us |-> ADB_BIT_1_HIGH_US] >>
    ELSE << [call |-> "drive_low", us |-> ADB_BIT_0_LOW_US],
            [call |-> "drive_low", us |-> ADB_BIT_0_HIGH_US] >>

\* send_bit: the pin calls of one bit cell, each with the delay that follows it
send_bit(bit) ==
    IF bit = 1
    THEN << [call |-> "drive_low", us |-> ADB_BIT_1_LOW_US],
            [call |-> "release", us |-> ADB_BIT_1_HIGH_US] >>
    ELSE << [call |-> "drive_low", us |-> ADB_BIT_0_LOW_US],
            [call |-> "release", us |-> ADB_BIT_0_HIGH_US] >>

\* send_data: a start bit '1', 16 data bits MSB first, a stop bit '0'
send_data(data) ==
    LET bits == [i \in 1..18 |-> IF i = 1 THEN 1
                                  ELSE IF i = 18 THEN 0
                                  ELSE (data \div (2 ^ (17 - i))) % 2]
    IN  [k \in 1..36 |-> send_bit(bits[(k + 1) \div 2])[2 - (k % 2)]]

\* assert_srq
assert_srq ==
    << [call |-> "drive_low", us |-> ADB_SRQ_LOW_US], [call |-> "release", us |-> 0] >>

\* receive_command: [4-bit addr][2-bit cmd][2-bit register]; byte < 0 is a failed
\* receive_byte
ParseCommand(byte) ==
    IF byte < 0
    THEN [address |-> 0, command |-> 0, reg |-> 0, valid |-> FALSE]
    ELSE [address |-> (byte \div 16) % 16,
          command |-> (byte \div 4) % 4,
          reg     |-> byte % 4,
          valid   |-> TRUE]

\* wait_for_state: 0 on a timeout, else the elapsed microseconds (which are 0 when
\* the line is in the target state within the first microsecond)
wait_for_state(reached, elapsed) == IF reached THEN elapsed ELSE 0

\* receive_data: start bit (-1 timeout, 0, 1), the 16 data bits (all received or
\* not), then the stop bit, whose result is not looked at
receive_data(start, bits_ok, stop_ok, payload) ==
    IF start < 0 \/ start # 1 THEN -1
    ELSE IF ~bits_ok THEN -1
    ELSE payload

\* a faulty variant of WantSrq in which the polled device's own data raises the
\* SRQ (C6 must reject it)
WantSrq_own(is_kbd, is_mouse, kbd_has_data, mouse_has_data) ==
    IF ~is_kbd /\ ~is_mouse
    THEN kbd_has_data \/ mouse_has_data
    ELSE IF is_kbd THEN kbd_has_data ELSE mouse_has_data

\* handle_command: which stop bits get an SRQ
WantSrq(is_kbd, is_mouse, kbd_has_data, mouse_has_data) ==
    IF ~is_kbd /\ ~is_mouse
    THEN kbd_has_data \/ mouse_has_data
    ELSE IF is_kbd THEN mouse_has_data ELSE kbd_has_data

\* a faulty variant of PulseClass with no lower limit for an attention pulse (C13
\* must reject it)
PulseClass_no_minimum(low_duration) ==
    IF low_duration >= ADB_RESET_MIN_US THEN "reset"
    ELSE IF low_duration <= ADB_ATTN_MAX_US THEN "attention"
    ELSE "noise"

\* bus_loop: what a measured low pulse is taken for
PulseClass(low_duration) ==
    IF low_duration >= ADB_RESET_MIN_US THEN "reset"
    ELSE IF low_duration >= ADB_ATTN_MIN_US /\ low_duration <= ADB_ATTN_MAX_US
         THEN "attention"
         ELSE "noise"

(* ----- inputs ---------------------------------------------------------- *)
\* durations (microseconds) of the low pulses the host drives
PulseDurations == {300, 560, 1040, 2000, 2800, 4000}
\* command bytes the host sends: Talk/Listen/Flush/Reset, registers 0..3, to the
\* default addresses, to the addresses Listen R3 can move a device to and to an
\* address nobody holds
CmdAddresses == {0, 2, 3, 6}
CmdBytes == {a * 16 + c * 4 + r : a \in CmdAddresses, c \in 0..3, r \in 0..3}
\* Listen payloads: 0x0600, 0x00FE, 0x1004, 0xFE00
ListenPayloads == {1536, 254, 4100, 65024}
KbdEvents == {[adb_keycode |-> 56, released |-> TRUE]}
MouseEvents == {[dx |-> 200, dy |-> -200, button |-> TRUE]}

(* ----- state ----------------------------------------------------------- *)
VARIABLES
    \* adb_keyboard.cpp
    kbd_address, kbd_handler, key_buf, key_head, key_tail, register2,
    \* adb_mouse.cpp
    mouse_address, mouse_handler, accum_dx, accum_dy,
    button_pressed, button_changed, events_from_queue,
    \* event_queue.cpp
    kbd_queue, mouse_queue,
    \* adb_protocol.cpp: bus_loop's position and locals, the counters
    pc, cmd, yield_counter, ints_enabled, poll_count, talk_response_count,
    \* the wire as the host drives it: level, the length of its low pulse, and
    \* whether its latest pulse was a global reset (>= ADB_RESET_MIN_US)
    line, pulse, reset_pulse,
    \* what the frame in progress (or the last one) did on the bus
    frame,
    \* history: inputs given so far, motion taken from the queue and reported
    pulses, kbd_pushed, mouse_pushed, moved, accepted, delivered,
    \* ble_hid_host.cpp: the two device slots, the scan flag, the pending connect,
    \* and where task_loop is (in its loop, or inside try_reconnect for a slot)
    s_keyboard, s_mouse, s_scanning, s_pending_connect, ble_task,
    \* whether the BLE stack is scanning (NimBLEScan started and not stopped)
    scan_active,
    \* the keyboard notifications counted: all of them, and those the length
    \* filter rejected
    s_ble_kbd_cb_count, s_ble_kbd_cb_dropped,
    \* history: the peer that try_connect skipped, from its return until task_loop
    \* calls start_scan; "none" otherwise
    last_skipped

kbd_vars == <<kbd_address, kbd_handler, key_buf, key_head, key_tail, register2>>
mouse_vars == <<mouse_address, mouse_handler, accum_dx, accum_dy,
                button_pressed, button_changed, events_from_queue>>
queue_vars == <<kbd_queue, mouse_queue>>
loop_vars == <<pc, cmd, yield_counter, ints_enabled, poll_count, talk_response_count>>
host_vars == <<line, pulse, reset_pulse, pulses>>
hist_vars == <<kbd_pushed, mouse_pushed, moved, accepted, delivered>>
ble_stats == <<s_ble_kbd_cb_count, s_ble_kbd_cb_dropped, last_skipped>>
ble_vars == <<s_keyboard, s_mouse, s_scanning, s_pending_connect, ble_task, ble_stats,
              scan_active>>
vars == <<kbd_vars, mouse_vars, queue_vars, loop_vars, host_vars, frame, hist_vars,
          ble_vars>>

NoCmd == ParseCommand(-1)
\* pin is the bridge's own drive_low and release calls of the frame, in order
NoFrame == [op |-> "none", dev |-> "none", reg |-> 0, data |-> -1,
            srq |-> FALSE, resp |-> -1, err |-> "none", pin |-> <<>>]

\* struct BleDevice as declared: no client, Disconnected, no previous report. link
\* is the radio link of the slot's client: "up", "down", or "lost" (down, with the
\* disconnect callback not yet delivered), peer is the address that client was
\* connected to. failures is history: the reconnect
\* attempts that failed since the slot was last Connected. subscribed and
\* boot_protocol are history too: the characteristics the last successful
\* try_connect or try_reconnect subscribed to, and try_connect's boot_protocol_set.
\* deleted and stale_use are history of the client object that the slot's last
\* try_connect or try_reconnect worked with: how often deleteClient was called
\* on it, and whether one of its methods was called after that.
\* triggered stands for reconnect_next_ms: TRUE while it holds the time at which
\* onResult saw the bonded peer and no reconnect attempt has started since.
NoDevice ==
    [state |-> "DISCONNECTED", client |-> FALSE, link |-> "down",
     is_keyboard |-> FALSE, is_mouse |-> FALSE,
     prev_keys |-> <<0, 0, 0, 0, 0, 0>>, prev_modifiers |-> 0, prev_buttons |-> FALSE,
     peer |-> "none", bonded_addr |-> "none", reconnect_delay_ms |-> 0,
     reconnect_attempts |-> 0, failures |-> 0,
     subscribed |-> {}, boot_protocol |-> FALSE,
     triggered |-> FALSE, deleted |-> 0, stale_use |-> FALSE]

\* adb_keyboard::init / adb_mouse::init values
KbdDefaults ==
    /\ kbd_address = ADB_ADDR_KEYBOARD
    /\ kbd_handler = ADB_HANDLER_KEYBOARD
    /\ key_head = 0
    /\ key_tail = 0
    /\ register2 = 65535

MouseDefaults ==
    /\ mouse_address = ADB_ADDR_MOUSE
    /\ mouse_handler = ADB_HANDLER_MOUSE
    /\ accum_dx = 0
    /\ accum_dy = 0
    /\ button_pressed = FALSE
    /\ button_changed = FALSE

Init ==
    /\ KbdDefaults
    /\ key_buf = [i \in 0..(KEY_BUF_SIZE - 1) |-> 0]
    /\ MouseDefaults
    /\ events_from_queue = 0
    /\ kbd_queue = <<>>
    /\ mouse_queue = <<>>
    /\ pc = "top"
    /\ cmd = NoCmd
    /\ yield_counter = 0
    /\ ints_enabled = TRUE
    /\ poll_count = 0
    /\ talk_response_count = 0
    /\ line = "high"
    /\ pulse = 0
    /\ reset_pulse = FALSE
    /\ frame = NoFrame
    /\ pulses = 0
    /\ kbd_pushed = 0
    /\ mouse_pushed = 0
    /\ moved = [in_dx |-> 0, in_dy |-> 0, out_dx |-> 0, out_dy |-> 0]
    /\ accepted = <<>>
    /\ delivered = <<>>
    /\ s_keyboard = NoDevice
    /\ s_mouse = NoDevice
    /\ s_scanning = TRUE
    /\ scan_active = TRUE
    /\ s_pending_connect = "none"
    /\ ble_task = "loop"
    /\ s_ble_kbd_cb_count = 0
    /\ s_ble_kbd_cb_dropped = 0
    /\ last_skipped = "none"

(* ----- event_queue.cpp: the BLE side's pushes -------------------------- *)
\* a faulty variant of send_kbd that makes room in a full queue by dropping the
\* oldest event (C16 must reject it)
PushKbd_overwrites_oldest(evt, max) ==
    /\ kbd_pushed < max
    /\ kbd_pushed' = kbd_pushed + 1
    /\ kbd_queue' = IF Len(kbd_queue) < KBD_QUEUE_SIZE THEN Append(kbd_queue, evt)
                    ELSE Append(Tail(kbd_queue), evt)
    /\ accepted' = Append(accepted, evt)
    /\ UNCHANGED <<kbd_vars, mouse_vars, mouse_queue, loop_vars, host_vars, frame,
                   mouse_pushed, moved, delivered, ble_vars>>

\* send_kbd: xQueueSend with no wait; a full queue drops the new event
PushKbd(evt, max) ==
    /\ kbd_pushed < max
    /\ kbd_pushed' = kbd_pushed + 1
    /\ IF Len(kbd_queue) < KBD_QUEUE_SIZE
       THEN kbd_queue' = Append(kbd_queue, evt) /\ accepted' = Append(accepted, evt)
       ELSE UNCHANGED <<kbd_queue, accepted>>
    /\ UNCHANGED <<kbd_vars, mouse_vars, mouse_queue, loop_vars, host_vars, frame,
                   mouse_pushed, moved, delivered, ble_vars>>

\* send_mouse
PushMouse(evt, max) ==
    /\ mouse_pushed < max
    /\ mouse_pushed' = mouse_pushed + 1
    /\ mouse_queue' = IF Len(mouse_queue) < MOUSE_QUEUE_SIZE
                      THEN Append(mouse_queue, evt) ELSE mouse_queue
    /\ UNCHANGED <<kbd_vars, mouse_vars, kbd_queue, loop_vars, host_vars, frame,
                   kbd_pushed, moved, accepted, delivered, ble_vars>>

(* ----- the host's side of the wire ------------------------------------- *)
\* The host starts a low pulse of d microseconds. bus_loop sees its falling edge
\* only while it spins in wait_for_state(false, 10000); an edge within the first
\* microsecond of that wait makes it return 0, which bus_loop takes for a timeout.
HostPullLow(d, max) ==
    /\ line = "high"
    /\ pulses < max
    /\ pc \in {"wait_edge", "yield", "end_iter"}
    /\ line' = "low"
    /\ pulse' = d
    /\ reset_pulse' = (d >= ADB_RESET_MIN_US)
    /\ pulses' = pulses + 1
    /\ IF pc = "wait_edge"
       THEN \E elapsed \in {0, 1} :
                pc' = IF wait_for_state(TRUE, elapsed) = 0 THEN "yield" ELSE "measure"
       ELSE pc' = pc
    /\ UNCHANGED <<kbd_vars, mouse_vars, queue_vars, cmd, yield_counter, ints_enabled,
                   poll_count, talk_response_count, frame, hist_vars, ble_vars>>

\* The host lets the line rise again. The pulse's length is kept only while
\* bus_loop is measuring it. A pulse of reset length outlasts a one-tick delay
\* and the end of an iteration: it ends while bus_loop waits for the line to rise.
HostRelease ==
    /\ line = "low"
    /\ pulse >= ADB_RESET_MIN_US => pc \in {"measure", "wait_high"}
    /\ line' = "high"
    /\ pulse' = IF pc = "measure" THEN pulse ELSE 0
    /\ UNCHANGED <<kbd_vars, mouse_vars, queue_vars, loop_vars, reset_pulse, pulses,
                   frame, hist_vars, ble_vars>>

(* ----- device handlers as actions on the device state ------------------ *)
\* a faulty variant of kbd_init that leaves register 2 alone (C10 must reject it)
kbd_init_keeps_register2 ==
    /\ kbd_address' = ADB_ADDR_KEYBOARD
    /\ kbd_handler' = ADB_HANDLER_KEYBOARD
    /\ key_head' = 0
    /\ key_tail' = 0
    /\ UNCHANGED <<key_buf, register2>>

kbd_init ==
    /\ kbd_address' = ADB_ADDR_KEYBOARD
    /\ kbd_handler' = ADB_HANDLER_KEYBOARD
    /\ key_head' = 0
    /\ key_tail' = 0
    /\ register2' = 65535
    /\ UNCHANGED key_buf

mouse_init ==
    /\ mouse_address' = ADB_ADDR_MOUSE
    /\ mouse_handler' = ADB_HANDLER_MOUSE
    /\ accum_dx' = 0
    /\ accum_dy' = 0
    /\ button_pressed' = FALSE
    /\ button_changed' = FALSE
    /\ UNCHANGED events_from_queue

kbd_has_data == ~buf_empty(key_head, key_tail) \/ Len(kbd_queue) > 0

mouse_has_data ==
    accum_dx # 0 \/ accum_dy # 0 \/ button_changed \/ Len(mouse_queue) > 0

\* The history is kept per stretch without Flush or Reset: a device that is cleared
\* starts a new stretch (the events still in its queue belong to it).
NoMotion == [in_dx |-> 0, in_dy |-> 0, out_dx |-> 0, out_dy |-> 0]

HistoryRestart(kbd, mouse) ==
    /\ moved' = IF mouse THEN NoMotion ELSE moved
    /\ accepted' = IF kbd THEN kbd_queue ELSE accepted
    /\ delivered' = IF kbd THEN <<>> ELSE delivered

(* ----- adb_protocol.cpp: bus_loop -------------------------------------- *)
\* top of the loop: read_pin()
LoopTop ==
    /\ pc = "top"
    /\ pc' = IF line = "low" THEN "wait_high" ELSE "wait_edge"
    /\ frame' = NoFrame
    /\ UNCHANGED <<kbd_vars, mouse_vars, queue_vars, cmd, yield_counter, ints_enabled,
                   poll_count, talk_response_count, host_vars, hist_vars, ble_vars>>

\* the line was low at the top: wait_for_state(true, ADB_RESET_MIN_US + 500), continue
WaitHigh ==
    /\ pc = "wait_high"
    /\ line = "high" \/ pulse >= ADB_RESET_MIN_US + 500
    /\ pc' = "top"
    /\ UNCHANGED <<kbd_vars, mouse_vars, queue_vars, cmd, yield_counter, ints_enabled,
                   poll_count, talk_response_count, host_vars, frame, hist_vars, ble_vars>>

\* wait_for_state(false, 10000) timed out: vTaskDelay(1) comes next
WaitEdgeTimeout ==
    /\ pc = "wait_edge"
    /\ line = "high"
    /\ pc' = "yield"
    /\ UNCHANGED <<kbd_vars, mouse_vars, queue_vars, cmd, yield_counter, ints_enabled,
                   poll_count, talk_response_count, host_vars, frame, hist_vars, ble_vars>>

\* vTaskDelay(1) is over
Yield ==
    /\ pc = "yield"
    /\ pc' = "top"
    /\ UNCHANGED <<kbd_vars, mouse_vars, queue_vars, cmd, yield_counter, ints_enabled,
                   poll_count, talk_response_count, host_vars, frame, hist_vars, ble_vars>>

\* low_duration after wait_for_state(true, ADB_RESET_MIN_US + 500): the pulse's
\* length, or the timeout when the pulse is longer
Measured ==
    /\ pc = "measure"
    /\ line = "high" \/ pulse >= ADB_RESET_MIN_US + 500

low_duration == IF pulse >= ADB_RESET_MIN_US + 500 THEN ADB_RESET_MIN_US + 500 ELSE pulse

GlobalReset ==
    /\ Measured
    /\ PulseClass(low_duration) = "reset"
    /\ kbd_init
    /\ mouse_init
    /\ pc' = "top"
    /\ frame' = [NoFrame EXCEPT !.op = "global_reset"]
    /\ HistoryRestart(TRUE, TRUE)
    /\ pulse' = IF line = "high" THEN 0 ELSE pulse
    /\ UNCHANGED <<queue_vars, cmd, yield_counter, ints_enabled, poll_count,
                   talk_response_count, line, reset_pulse, pulses, kbd_pushed,
                   mouse_pushed, ble_vars>>

Attention ==
    /\ Measured
    /\ PulseClass(low_duration) = "attention"
    /\ pc' = "sync"
    /\ frame' = NoFrame
    /\ pulse' = 0
    /\ UNCHANGED <<kbd_vars, mouse_vars, queue_vars, cmd, yield_counter, ints_enabled,
                   poll_count, talk_response_count, line, reset_pulse, pulses,
                   hist_vars, ble_vars>>

NoisePulse ==
    /\ Measured
    /\ PulseClass(low_duration) = "noise"
    /\ pc' = "end_iter"
    /\ frame' = [NoFrame EXCEPT !.op = "noise"]
    /\ pulse' = 0
    /\ UNCHANGED <<kbd_vars, mouse_vars, queue_vars, cmd, yield_counter, ints_enabled,
                   poll_count, talk_response_count, line, reset_pulse, pulses,
                   hist_vars, ble_vars>>

\* sync = elapsed time of wait_for_state(false, ADB_SYNC_NOMINAL_US + 30); the
\* command is read only when sync > 0, with interrupts off
SyncWait ==
    /\ pc = "sync"
    /\ \E sync \in {0, 65} :
          IF sync > 0
          THEN pc' = "recv_cmd" /\ ints_enabled' = FALSE
          ELSE pc' = "end_iter" /\ UNCHANGED ints_enabled
    /\ UNCHANGED <<kbd_vars, mouse_vars, queue_vars, cmd, yield_counter,
                   poll_count, talk_response_count, host_vars, frame, hist_vars, ble_vars>>

\* a faulty variant that leaves interrupts off when the command is not valid
\* (C25 must reject it)
RecvCommand_keeps_ints_off(bytes) ==
    /\ pc = "recv_cmd"
    /\ \E byte \in bytes \cup {-1} :
          /\ cmd' = ParseCommand(byte)
          /\ IF cmd'.valid
             THEN pc' = "handle" /\ UNCHANGED <<ints_enabled, frame>>
             ELSE /\ pc' = "end_iter"
                  /\ UNCHANGED ints_enabled
                  /\ frame' = [frame EXCEPT !.err = "cmd_bit"]
    /\ UNCHANGED <<kbd_vars, mouse_vars, queue_vars, yield_counter,
                   poll_count, talk_response_count, host_vars, hist_vars, ble_vars>>

\* receive_command; byte = -1 is a receive_bit that failed
RecvCommand(bytes) ==
    /\ pc = "recv_cmd"
    /\ \E byte \in bytes \cup {-1} :
          /\ cmd' = ParseCommand(byte)
          /\ IF cmd'.valid
             THEN pc' = "handle" /\ UNCHANGED <<ints_enabled, frame>>
             ELSE /\ pc' = "end_iter"
                  /\ ints_enabled' = TRUE
                  /\ frame' = [frame EXCEPT !.err = "cmd_bit"]
    /\ UNCHANGED <<kbd_vars, mouse_vars, queue_vars, yield_counter,
                   poll_count, talk_response_count, host_vars, hist_vars, ble_vars>>

is_kbd == cmd.address = kbd_address
is_mouse == cmd.address = mouse_address

DispatchPc(command) ==
    CASE command = ADB_CMD_TALK -> "talk"
      [] command = ADB_CMD_LISTEN -> "listen"
      [] command = ADB_CMD_FLUSH -> "flush"
      [] OTHER -> "reset"

\* handle_command up to the switch: counters, consume_stop_bit with or without
\* SRQ (the result of its wait for the stop bit is not looked at), interrupts on
HandleCommand ==
    /\ pc = "handle"
    /\ poll_count' = poll_count + 1
    /\ \E stop_seen \in BOOLEAN :
          frame' = [frame EXCEPT
                      !.op = IF ~is_kbd /\ ~is_mouse THEN "unaddressed" ELSE "addressed",
                      !.dev = IF is_kbd THEN "kbd" ELSE IF is_mouse THEN "mouse" ELSE "none",
                      !.reg = cmd.reg,
                      !.srq = WantSrq(is_kbd, is_mouse, kbd_has_data, mouse_has_data),
                      !.pin = IF WantSrq(is_kbd, is_mouse, kbd_has_data, mouse_has_data)
                              THEN @ \o assert_srq ELSE @,
                      !.err = IF stop_seen THEN "none" ELSE "cmd_stop"]
    /\ ints_enabled' = TRUE
    /\ pc' = IF ~is_kbd /\ ~is_mouse THEN "end_iter" ELSE DispatchPc(cmd.command)
    /\ UNCHANGED <<kbd_vars, mouse_vars, queue_vars, cmd, yield_counter,
                   talk_response_count, host_vars, hist_vars, ble_vars>>

(* ----- Talk ------------------------------------------------------------ *)
\* adb_keyboard::handle_talk on [queue, buf, head, tail]: the response (has, data)
\* and the ring and queue it leaves
KbdTalk(reg, q, buf, head, tail) ==
    LET same == [has |-> FALSE, data |-> 0, queue |-> q,
                 buf |-> buf, head |-> head, tail |-> tail, keys |-> <<>>]
    IN  CASE reg = 0 ->
               LET ring == KbdDrain(q, [buf |-> buf, head |-> head], tail)
                   key1 == ring.buf[tail]
                   tail1 == (tail + 1) % KEY_BUF_SIZE
                   second == ~buf_empty(ring.head, tail1)
                   key2 == IF second THEN ring.buf[tail1] ELSE 255
                   tail2 == IF second THEN (tail1 + 1) % KEY_BUF_SIZE ELSE tail1
               IN  IF buf_empty(ring.head, tail)
                   THEN [same EXCEPT !.queue = <<>>, !.buf = ring.buf, !.head = ring.head]
                   ELSE [has |-> TRUE, data |-> BitOr(key1 * 256, key2), queue |-> <<>>,
                         buf |-> ring.buf, head |-> ring.head, tail |-> tail2,
                         keys |-> IF second THEN <<key1, key2>> ELSE <<key1>>]
          [] reg = 2 -> [same EXCEPT !.has = TRUE, !.data = register2]
          [] reg = 3 -> [same EXCEPT !.has = TRUE,
                                     !.data = TalkR3Data(kbd_address, kbd_handler)]
          [] OTHER -> same

RECURSIVE SumOf(_, _)
SumOf(q, f) ==
    IF q = <<>> THEN 0
    ELSE IF Len(q) = 1 THEN q[1][f]
    ELSE LET half == Len(q) \div 2
         IN  SumOf(SubSeq(q, 1, half), f) + SumOf(SubSeq(q, half + 1, Len(q)), f)

\* adb_mouse::handle_talk
MouseTalk(reg, q, dx, dy, pressed, changed, n) ==
    LET same == [has |-> FALSE, data |-> 0, queue |-> q, dx |-> dx, dy |-> dy,
                 pressed |-> pressed, changed |-> changed, n |-> n,
                 rep_dx |-> 0, rep_dy |-> 0]
    IN  CASE reg = 0 ->
               LET m == MouseDrain(q, [dx |-> dx, dy |-> dy, pressed |-> pressed,
                                       changed |-> changed, n |-> n])
                   drained == [same EXCEPT !.queue = <<>>, !.dx = m.dx, !.dy = m.dy,
                                  !.pressed = m.pressed, !.changed = m.changed, !.n = m.n]
               IN  IF mouse_idle(m.dx, m.dy, m.changed)
                   THEN drained
                   ELSE [drained EXCEPT
                           !.has = TRUE,
                           !.data = MouseTalkData(m.dx, m.dy, m.pressed),
                           !.dx = Wrap16(m.dx - clamp7(m.dx)),
                           !.dy = Wrap16(m.dy - clamp7(m.dy)),
                           !.changed = FALSE,
                           !.rep_dx = clamp7(m.dx),
                           !.rep_dy = clamp7(m.dy)]
          [] reg = 3 -> [same EXCEPT !.has = TRUE,
                                     !.data = TalkR3Data(mouse_address, mouse_handler)]
          [] OTHER -> same

\* case ADB_CMD_TALK: the device's handle_talk, then Tlt and send_data when it has
\* a response
TalkKbd ==
    /\ pc = "talk"
    /\ is_kbd
    /\ LET t == KbdTalk(cmd.reg, kbd_queue, key_buf, key_head, key_tail)
       IN  /\ kbd_queue' = t.queue
           /\ key_buf' = t.buf
           /\ key_head' = t.head
           /\ key_tail' = t.tail
           /\ delivered' = delivered \o t.keys
           /\ talk_response_count' = IF t.has THEN talk_response_count + 1
                                     ELSE talk_response_count
           /\ frame' = [frame EXCEPT !.op = "talk",
                                     !.resp = IF t.has THEN t.data ELSE -1,
                                     !.pin = IF t.has THEN @ \o send_data(t.data) ELSE @]
    /\ pc' = "end_iter"
    /\ UNCHANGED <<kbd_address, kbd_handler, register2, mouse_vars, mouse_queue, cmd,
                   yield_counter, ints_enabled, poll_count, host_vars,
                   kbd_pushed, mouse_pushed, moved, accepted, ble_vars>>

TalkMouse ==
    /\ pc = "talk"
    /\ ~is_kbd
    /\ LET t == MouseTalk(cmd.reg, mouse_queue, accum_dx, accum_dy,
                          button_pressed, button_changed, events_from_queue)
       IN  /\ mouse_queue' = t.queue
           /\ accum_dx' = t.dx
           /\ accum_dy' = t.dy
           /\ button_pressed' = t.pressed
           /\ button_changed' = t.changed
           /\ events_from_queue' = t.n
           /\ moved' = IF cmd.reg = 0
                       THEN [in_dx  |-> moved.in_dx + SumOf(mouse_queue, "dx"),
                             in_dy  |-> moved.in_dy + SumOf(mouse_queue, "dy"),
                             out_dx |-> moved.out_dx + t.rep_dx,
                             out_dy |-> moved.out_dy + t.rep_dy]
                       ELSE moved
           /\ talk_response_count' = IF t.has THEN talk_response_count + 1
                                     ELSE talk_response_count
           /\ frame' = [frame EXCEPT !.op = "talk",
                                     !.resp = IF t.has THEN t.data ELSE -1,
                                     !.pin = IF t.has THEN @ \o send_data(t.data) ELSE @]
    /\ pc' = "end_iter"
    /\ UNCHANGED <<kbd_vars, mouse_address, mouse_handler, kbd_queue, cmd,
                   yield_counter, ints_enabled, poll_count, host_vars,
                   kbd_pushed, mouse_pushed, accepted, delivered, ble_vars>>

(* ----- Listen ---------------------------------------------------------- *)
\* what went wrong while the Listen data was received, if anything
ListenError(reached, start, bits_ok, stop_ok) ==
    IF ~reached THEN "listen_start_wait"
    ELSE IF start # 1 THEN "listen_start_bit"
    ELSE IF ~bits_ok THEN "listen_data_bit"
    ELSE IF ~stop_ok THEN "listen_stop"
    ELSE "none"

\* adb_keyboard::handle_listen
kbd_handle_listen(reg, data) ==
    /\ register2' = IF reg = 2 THEN data ELSE register2
    /\ kbd_address' = IF reg = 3 THEN ListenAddress(data, kbd_address) ELSE kbd_address
    /\ kbd_handler' = IF reg = 3 THEN ListenHandler(data, kbd_handler) ELSE kbd_handler
    /\ UNCHANGED <<key_buf, key_head, key_tail>>

\* adb_mouse::handle_listen
mouse_handle_listen(reg, data) ==
    /\ mouse_address' = IF reg = 3 THEN ListenAddress(data, mouse_address)
                        ELSE mouse_address
    /\ mouse_handler' = IF reg = 3 THEN ListenHandler(data, mouse_handler)
                        ELSE mouse_handler
    /\ UNCHANGED <<accum_dx, accum_dy, button_pressed, button_changed, events_from_queue>>

\* case ADB_CMD_LISTEN: wait for the start bit's falling edge, receive_data, and
\* the device's handle_listen when data >= 0
Listen(payloads) ==
    /\ pc = "listen"
    /\ \E reached \in BOOLEAN, elapsed \in {0, 1}, start \in {-1, 0, 1},
          bits_ok \in BOOLEAN, stop_ok \in BOOLEAN, payload \in payloads :
          LET waited == wait_for_state(reached, elapsed)
              data == IF waited = 0 THEN -1
                      ELSE receive_data(start, bits_ok, stop_ok, payload)
          IN  /\ frame' = [frame EXCEPT
                             !.op = "listen",
                             !.data = data,
                             !.err = IF frame.err # "none" THEN frame.err
                                     ELSE IF waited = 0 /\ reached THEN "none"
                                     ELSE ListenError(reached, start, bits_ok, stop_ok)]
              /\ IF data >= 0
                 THEN IF is_kbd
                      THEN kbd_handle_listen(cmd.reg, data) /\ UNCHANGED mouse_vars
                      ELSE mouse_handle_listen(cmd.reg, data) /\ UNCHANGED kbd_vars
                 ELSE UNCHANGED <<kbd_vars, mouse_vars>>
    /\ pc' = "end_iter"
    /\ UNCHANGED <<queue_vars, cmd, yield_counter, ints_enabled, poll_count,
                   talk_response_count, host_vars, hist_vars, ble_vars>>

(* ----- Flush, Reset ---------------------------------------------------- *)
kbd_handle_flush ==
    /\ key_head' = 0
    /\ key_tail' = 0
    /\ UNCHANGED <<kbd_address, kbd_handler, key_buf, register2>>

\* a faulty variant of mouse_handle_flush that also releases the button (C12 must
\* reject it)
mouse_handle_flush_releases_button ==
    /\ accum_dx' = 0
    /\ accum_dy' = 0
    /\ button_changed' = FALSE
    /\ button_pressed' = FALSE
    /\ UNCHANGED <<mouse_address, mouse_handler, events_from_queue>>

mouse_handle_flush ==
    /\ accum_dx' = 0
    /\ accum_dy' = 0
    /\ button_changed' = FALSE
    /\ UNCHANGED <<mouse_address, mouse_handler, button_pressed, events_from_queue>>

\* case ADB_CMD_FLUSH
Flush ==
    /\ pc = "flush"
    /\ IF is_kbd THEN kbd_handle_flush ELSE UNCHANGED kbd_vars
    /\ IF is_mouse THEN mouse_handle_flush ELSE UNCHANGED mouse_vars
    /\ HistoryRestart(is_kbd, is_mouse)
    /\ frame' = [frame EXCEPT !.op = "flush"]
    /\ pc' = "end_iter"
    /\ UNCHANGED <<queue_vars, cmd, yield_counter, ints_enabled, poll_count,
                   talk_response_count, host_vars, kbd_pushed, mouse_pushed, ble_vars>>

\* case ADB_CMD_RESET
Reset ==
    /\ pc = "reset"
    /\ IF is_kbd THEN kbd_init ELSE UNCHANGED kbd_vars
    /\ IF is_mouse THEN mouse_init ELSE UNCHANGED mouse_vars
    /\ HistoryRestart(is_kbd, is_mouse)
    /\ frame' = [frame EXCEPT !.op = "reset"]
    /\ pc' = "end_iter"
    /\ UNCHANGED <<queue_vars, cmd, yield_counter, ints_enabled, poll_count,
                   talk_response_count, host_vars, kbd_pushed, mouse_pushed, ble_vars>>

\* the end of an iteration that did not `continue`: the periodic vTaskDelay(1)
EndIter ==
    /\ pc = "end_iter"
    /\ IF yield_counter + 1 >= YIELD_PERIOD
       THEN yield_counter' = 0 /\ pc' = "yield"
       ELSE yield_counter' = yield_counter + 1 /\ pc' = "top"
    /\ cmd' = NoCmd
    /\ frame' = NoFrame
    /\ UNCHANGED <<kbd_vars, mouse_vars, queue_vars, ints_enabled, poll_count,
                   talk_response_count, host_vars, hist_vars, ble_vars>>

(* ----- the system ------------------------------------------------------ *)
BusLoop(bytes, payloads) ==
    \/ LoopTop
    \/ WaitHigh
    \/ WaitEdgeTimeout
    \/ Yield
    \/ GlobalReset
    \/ Attention
    \/ NoisePulse
    \/ SyncWait
    \/ RecvCommand(bytes)
    \/ HandleCommand
    \/ TalkKbd
    \/ TalkMouse
    \/ Listen(payloads)
    \/ Flush
    \/ Reset
    \/ EndIter

Next ==
    \/ \E d \in PulseDurations : HostPullLow(d, MaxPulses)
    \/ HostRelease
    \/ \E evt \in KbdEvents : PushKbd(evt, MaxKbdPush)
    \/ \E evt \in MouseEvents : PushMouse(evt, MaxMousePush)
    \/ BusLoop(CmdBytes, ListenPayloads)

Spec == Init /\ [][Next]_vars

(* ----- a host that only polls the mouse's register 0 ------------------- *)
\* polls and pushed events in one behaviour of SpecMouse
MaxMousePolls == 3
MaxMouseBurst == 2
\* Talk R0 to address 3
MousePollBytes == {60}
BurstMouseEvents == {[dx |-> 32767, dy |-> -32768, button |-> TRUE],
                     [dx |-> 200, dy |-> -200, button |-> FALSE],
                     [dx |-> 0, dy |-> 0, button |-> FALSE],
                     [dx |-> 70, dy |-> -70, button |-> FALSE]}

NextMouse ==
    \/ \E d \in {800} : HostPullLow(d, MaxMousePolls)
    \/ HostRelease
    \/ \E evt \in BurstMouseEvents : PushMouse(evt, MaxMouseBurst)
    \/ LoopTop
    \/ WaitHigh
    \/ WaitEdgeTimeout
    \/ Yield
    \/ Attention
    \/ SyncWait
    \/ RecvCommand(MousePollBytes)
    \/ HandleCommand
    \/ TalkMouse
    \/ EndIter

SpecMouse == Init /\ [][NextMouse]_vars

(* ----- a host that only polls the keyboard's register 0 ---------------- *)
\* polls in one behaviour of SpecKbd
MaxKbdPolls == 2
\* key events pushed in one behaviour of SpecKbd: as many as the queue holds
MaxKbdBurst == 32
\* Talk R0 to address 2
KbdPollBytes == {44}
\* the n-th key event of the burst: keys 0, 1, 2, ... are tapped one after the
\* other (down in the odd events, up in the even ones)
BurstKbdEvent(n) == [adb_keycode |-> (n - 1) \div 2, released |-> n % 2 = 0]

NextKbd ==
    \/ \E d \in {800} : HostPullLow(d, MaxKbdPolls)
    \/ HostRelease
    \/ PushKbd(BurstKbdEvent(kbd_pushed + 1), MaxKbdBurst)
    \/ LoopTop
    \/ WaitHigh
    \/ WaitEdgeTimeout
    \/ Yield
    \/ Attention
    \/ SyncWait
    \/ RecvCommand(KbdPollBytes)
    \/ HandleCommand
    \/ TalkKbd
    \/ EndIter

SpecKbd == Init /\ [][NextKbd]_vars

(* ----- a host that flushes the keyboard, then polls its register 0 ------ *)
\* host pulses in one behaviour of SpecKbdFlush
MaxFlushPolls == 2
\* Flush to address 2
KbdFlushBytes == {36}

\* The BLE side pushes its burst while the host is still silent; the first command
\* the host gets through is the Flush, the following ones are Talk R0.
NextKbdFlush ==
    \/ \E d \in {800} : HostPullLow(d, MaxFlushPolls)
    \/ HostRelease
    \/ PushKbd(BurstKbdEvent(kbd_pushed + 1), IF pulses = 0 THEN MaxKbdBurst ELSE 0)
    \/ LoopTop
    \/ WaitHigh
    \/ WaitEdgeTimeout
    \/ Yield
    \/ Attention
    \/ SyncWait
    \/ RecvCommand(IF poll_count = 0 THEN KbdFlushBytes ELSE KbdPollBytes)
    \/ HandleCommand
    \/ Flush
    \/ TalkKbd
    \/ EndIter

SpecKbdFlush == Init /\ [][NextKbdFlush]_vars

(* ----- both queues filled beyond their capacity, then polled ------------- *)
\* one push more than each queue holds
MaxQueueKbd == 33
MaxQueueMouse == 65
MaxQueuePolls == 2
QueuePollBytes == {44, 60}
\* the n-th mouse event of the filling: one count right and up, the button down
\* in the odd events
FillMouseEvent(n) == [dx |-> 1, dy |-> -1, button |-> n % 2 = 1]

\* the keyboard queue is filled first, then the mouse queue, both before the
\* host's first command; the host starts polling at any point of the filling
NextQueue ==
    \/ \E d \in {800} : HostPullLow(d, MaxQueuePolls)
    \/ HostRelease
    \/ PushKbd(BurstKbdEvent(kbd_pushed + 1),
               IF mouse_pushed = 0 /\ pulses = 0 THEN MaxQueueKbd ELSE 0)
    \/ PushMouse(FillMouseEvent(mouse_pushed + 1),
                 IF kbd_pushed \in {0, MaxQueueKbd} /\ pulses = 0
                 THEN MaxQueueMouse ELSE 0)
    \/ LoopTop \/ WaitHigh \/ WaitEdgeTimeout \/ Yield \/ Attention \/ SyncWait
    \/ RecvCommand(QueuePollBytes)
    \/ HandleCommand \/ TalkKbd \/ TalkMouse \/ EndIter

SpecQueue == Init /\ [][NextQueue]_vars

(* ----- ble_hid_host.cpp: the BLE side ----------------------------------- *)
ADB_KEY_NONE == 255
BLE_RECONNECT_INITIAL_MS == 1000
BLE_RECONNECT_MAX_MS == 30000
BLE_RECONNECT_MAX_ATTEMPTS == 10

\* keycode_map.h: MODIFIER_MAP, in the order of the bits of the modifier byte
MODIFIER_MAP ==
    << [usb_mask |-> 1,   adb_keycode |-> 54],  [usb_mask |-> 2,   adb_keycode |-> 56],
       [usb_mask |-> 4,   adb_keycode |-> 58],  [usb_mask |-> 8,   adb_keycode |-> 55],
       [usb_mask |-> 16,  adb_keycode |-> 125], [usb_mask |-> 32,  adb_keycode |-> 123],
       [usb_mask |-> 64,  adb_keycode |-> 124], [usb_mask |-> 128, adb_keycode |-> 55] >>

\* keycode_map::usb_to_adb on the usages the reports below carry: 'a' and 'b' are
\* mapped, every other usage here is not
usb_to_adb(usb_keycode) ==
    IF usb_keycode = 4 THEN 0 ELSE IF usb_keycode = 5 THEN 11 ELSE ADB_KEY_NONE

HasBit(x, mask) == (x \div mask) % 2 = 1
InKeys(k, keys) == \E j \in 1..6 : keys[j] = k
KeyEvents(usages, released) ==
    [i \in 1..Len(usages) |-> [adb_keycode |-> usb_to_adb(usages[i]), released |-> released]]

\* on_keyboard_report, first loop: one event per changed modifier bit
ModifierEvents(modifiers, prev_modifiers) ==
    LET changed == SelectSeq(MODIFIER_MAP,
                       LAMBDA m : HasBit(modifiers, m.usb_mask) # HasBit(prev_modifiers, m.usb_mask))
    IN  [i \in 1..Len(changed) |-> [adb_keycode |-> changed[i].adb_keycode,
                                    released |-> ~HasBit(modifiers, changed[i].usb_mask)]]

\* second loop: a release per previous key that is not in the report
ReleaseEvents(keys, prev_keys) ==
    KeyEvents(SelectSeq(prev_keys, LAMBDA k : k # 0 /\ ~InKeys(k, keys)
                                              /\ usb_to_adb(k) # ADB_KEY_NONE), TRUE)

\* third loop: a press per key of the report that was not pressed before
PressEvents(keys, prev_keys) ==
    KeyEvents(SelectSeq(keys, LAMBDA k : k # 0 /\ ~InKeys(k, prev_keys)
                                         /\ usb_to_adb(k) # ADB_KEY_NONE), FALSE)

\* a faulty variant that runs the press loop before the release loop (C21 must
\* reject it)
KbdReportEvents_presses_first(data, prev_modifiers, prev_keys) ==
    IF data.length < 8 THEN <<>>
    ELSE ModifierEvents(data.modifiers, prev_modifiers)
         \o PressEvents(data.keys, prev_keys) \o ReleaseEvents(data.keys, prev_keys)

KbdReportEvents(data, prev_modifiers, prev_keys) ==
    IF data.length < 8 THEN <<>>
    ELSE ModifierEvents(data.modifiers, prev_modifiers)
         \o ReleaseEvents(data.keys, prev_keys) \o PressEvents(data.keys, prev_keys)

ToInt16(u) == IF u >= 32768 THEN u - 65536 ELSE u
ToInt8(u) == IF u >= 128 THEN u - 256 ELSE u

\* on_mouse_report: Report Protocol (5 bytes or more) or Boot Protocol (3 or 4)
MouseReportEvent(data) ==
    IF data.length >= 5
    THEN [dx |-> ToInt16(data.bytes[2] + 256 * data.bytes[3]),
          dy |-> ToInt16(data.bytes[4] + 256 * data.bytes[5]),
          button |-> data.bytes[1] % 2 = 1]
    ELSE [dx |-> ToInt8(data.bytes[2]), dy |-> ToInt8(data.bytes[3]),
          button |-> data.bytes[1] % 2 = 1]

\* successive xQueueSend calls with no wait: what does not fit is dropped
SendAll(q, evts, size) ==
    LET all == q \o evts
    IN  SubSeq(all, 1, IF Len(all) < size THEN Len(all) ELSE size)

KbdReports ==
    { [length |-> 8, modifiers |-> 2, keys |-> <<4, 0, 0, 0, 0, 0>>],
      [length |-> 8, modifiers |-> 0, keys |-> <<0, 0, 0, 0, 0, 0>>],
      [length |-> 3, modifiers |-> 2, keys |-> <<5, 0, 0, 0, 0, 0>>] }
MouseReports ==
    { [length |-> 3, bytes |-> <<1, 200, 56, 0, 0>>],
      [length |-> 5, bytes |-> <<0, 200, 0, 56, 255>>],
      [length |-> 2, bytes |-> <<1, 1, 0, 0, 0>>] }
\* the peers in range: a keyboard at address "K" and a mouse at address "M"
PeerAddrs == {"K", "M"}
\* what the HID service of the peer at an address exposes: the Boot input
\* characteristics, whether it has a Report Map that can be read, and the Generic
\* Desktop usages the map declares. "K" and "M" are a boot keyboard and a boot
\* mouse, "U" has no Boot characteristic and a Report Map that cannot be read,
\* "A" has neither Boot characteristic nor Report Map, "N" has no Boot
\* characteristic and a Report Map with neither usage, "R" is a mouse known by
\* its Report Map only. "B" is a keyboard with Boot Keyboard Input and two HID
\* Reports, "T" a trackpad with Boot Mouse Input and two HID Reports.
\* proto_writable: Protocol Mode exists and can be written. reports: the HID
\* Report characteristics that can notify, in the order of getCharacteristics.
Peer(addr) ==
    [boot_kbd |-> addr \in {"K", "B"}, boot_mouse |-> addr \in {"M", "T"},
     report_map |-> addr \in {"U", "N", "R"},
     can_read |-> addr \in {"N", "R"},
     usages |-> IF addr = "R" THEN {2} ELSE IF addr = "U" THEN {6} ELSE {},
     proto_writable |-> addr \in {"K", "B"},
     reports |-> IF addr \in {"B", "T", "N", "R"} THEN <<"report1", "report2">>
                 ELSE IF addr \in {"U", "A"} THEN <<"report1">>
                 ELSE <<>>]

\* what a connect attempt writes or subscribes to; a run chooses the subset on
\* which writeValue / subscribe succeed
InputChars == {"proto_mode", "boot_kbd", "boot_mouse", "report1", "report2"}

\* the first HID Report whose subscribe succeeded, as a set (loop with break)
FirstReport(reports, ok) ==
    LET idx == {i \in DOMAIN reports : reports[i] \in ok}
    IN  IF idx = {} THEN {}
        ELSE {reports[CHOOSE i \in idx : \A j \in idx : i <= j]}

\* every HID Report whose subscribe succeeded (loop without break)
AllReports(reports, ok) == {reports[i] : i \in {j \in DOMAIN reports : reports[j] \in ok}}

\* the mouse subscription strategy of try_connect and try_reconnect
mouse_subscribe(hid_service, ok) ==
    LET got == FirstReport(hid_service.reports, ok)
    IN  IF got # {} THEN got
        ELSE IF hid_service.boot_mouse /\ "boot_mouse" \in ok THEN {"boot_mouse"}
        ELSE {}

\* try_connect: boot_protocol_set
boot_protocol_set(hid_service, assign_as_kbd, ok) ==
    hid_service.proto_writable /\ assign_as_kbd /\ "proto_mode" \in ok

\* try_connect: the characteristics it subscribes to
try_connect_subscribe(hid_service, assign_as_kbd, ok) ==
    IF assign_as_kbd
    THEN IF /\ boot_protocol_set(hid_service, assign_as_kbd, ok)
            /\ hid_service.boot_kbd /\ "boot_kbd" \in ok
         THEN {"boot_kbd"}
         ELSE AllReports(hid_service.reports, ok)
    ELSE mouse_subscribe(hid_service, ok)

\* try_reconnect: the characteristics it subscribes to
try_reconnect_subscribe(hid_service, was_keyboard, ok) ==
    IF was_keyboard
    THEN IF hid_service.boot_kbd /\ "boot_kbd" \in ok
         THEN {"boot_kbd"}
         ELSE AllReports(hid_service.reports, ok)
    ELSE mouse_subscribe(hid_service, ok)

\* detect_device_type: the two flags it leaves in is_keyboard and is_mouse
detect_device_type(hid_service) ==
    IF hid_service.boot_kbd \/ hid_service.boot_mouse
    THEN [is_keyboard |-> hid_service.boot_kbd, is_mouse |-> hid_service.boot_mouse]
    ELSE IF ~hid_service.report_map \/ ~hid_service.can_read
    THEN [is_keyboard |-> FALSE, is_mouse |-> FALSE]
    ELSE IF 6 \in hid_service.usages \/ 2 \in hid_service.usages
    THEN [is_keyboard |-> 6 \in hid_service.usages, is_mouse |-> 2 \in hid_service.usages]
    ELSE [is_keyboard |-> TRUE, is_mouse |-> FALSE]
Advertisements == {[addr |-> a, hid |-> h] : a \in PeerAddrs, h \in BOOLEAN}

adb_side == <<kbd_vars, mouse_vars, loop_vars, host_vars, frame>>

Dev(d) == IF d = "KBD" THEN s_keyboard ELSE s_mouse
SetDev(d, v) ==
    IF d = "KBD" THEN s_keyboard' = v /\ UNCHANGED s_mouse
    ELSE s_mouse' = v /\ UNCHANGED s_keyboard

\* a notification of the subscribed keyboard characteristic; max bounds the
\* notifications a run explores
on_keyboard_report(data, max) ==
    /\ s_keyboard.link = "up"
    /\ s_ble_kbd_cb_count < max
    /\ s_ble_kbd_cb_count' = s_ble_kbd_cb_count + 1
    /\ s_ble_kbd_cb_dropped' = s_ble_kbd_cb_dropped + (IF data.length < 8 THEN 1 ELSE 0)
    /\ LET evts == KbdReportEvents(data, s_keyboard.prev_modifiers, s_keyboard.prev_keys)
           q == SendAll(kbd_queue, evts, KBD_QUEUE_SIZE)
       IN  /\ kbd_queue' = q
           /\ accepted' = accepted \o SubSeq(evts, 1, Len(q) - Len(kbd_queue))
           /\ kbd_pushed' = kbd_pushed + Len(evts)
    /\ s_keyboard' = IF data.length < 8 THEN s_keyboard
                     ELSE [s_keyboard EXCEPT !.prev_modifiers = data.modifiers,
                                             !.prev_keys = data.keys]
    /\ UNCHANGED <<adb_side, mouse_queue, mouse_pushed, moved, delivered, s_mouse,
                   s_scanning, scan_active, s_pending_connect, ble_task, last_skipped>>

\* a notification of the subscribed mouse characteristic
on_mouse_report(data, max) ==
    /\ s_mouse.link = "up"
    /\ mouse_pushed < max
    /\ IF data.length < 3
       THEN UNCHANGED <<mouse_queue, mouse_pushed, s_mouse>>
       ELSE /\ mouse_queue' = SendAll(mouse_queue, <<MouseReportEvent(data)>>, MOUSE_QUEUE_SIZE)
            /\ mouse_pushed' = mouse_pushed + 1
            /\ s_mouse' = [s_mouse EXCEPT !.prev_buttons = MouseReportEvent(data).button]
    /\ UNCHANGED <<adb_side, ble_stats, kbd_queue, kbd_pushed, moved, accepted, delivered, s_keyboard,
                   s_scanning, scan_active, s_pending_connect, ble_task>>

\* ClientCallbacks::onConnect: the link of try_reconnect's connect came up
onConnect(d) ==
    /\ ble_task = d
    /\ Dev(d).state = "RECONNECTING"
    /\ Dev(d).link # "up"
    /\ SetDev(d, [Dev(d) EXCEPT !.state = "DISCOVERING", !.link = "up"])
    /\ UNCHANGED <<adb_side, ble_stats, queue_vars, hist_vars, s_scanning, scan_active, s_pending_connect, ble_task>>

\* the radio link of a slot's client goes down (the peer left, or the client
\* was told to disconnect); its disconnect callback is still to come
LinkDrop(d) ==
    /\ Dev(d).link = "up"
    /\ SetDev(d, [Dev(d) EXCEPT !.link = "lost"])
    /\ UNCHANGED <<adb_side, ble_stats, queue_vars, hist_vars, s_scanning, scan_active, s_pending_connect, ble_task>>

\* ClientCallbacks::onDisconnect on the slot's fields
Disconnected(dev) ==
    LET cleared == [dev EXCEPT !.link = "down",
                               !.prev_keys = <<0, 0, 0, 0, 0, 0>>,
                               !.prev_modifiers = 0,
                               !.prev_buttons = FALSE]
    IN  IF dev.is_keyboard \/ dev.is_mouse
        THEN [cleared EXCEPT !.bonded_addr = dev.peer,
                             !.reconnect_delay_ms = BLE_RECONNECT_INITIAL_MS,
                             !.triggered = FALSE,
                             !.reconnect_attempts = 0, !.state = "RECONNECTING"]
        ELSE [cleared EXCEPT !.state = "DISCONNECTED", !.is_keyboard = FALSE,
                             !.is_mouse = FALSE, !.client = FALSE,
                             !.deleted = IF dev.client THEN @ + 1 ELSE @]

\* a faulty variant of onDisconnect that also empties the slot's event queue
\* (C15 must reject it)
onDisconnect_resets_queue(d) ==
    /\ Dev(d).link = "lost"
    /\ SetDev(d, Disconnected(Dev(d)))
    /\ IF d = "KBD" THEN kbd_queue' = <<>> /\ UNCHANGED mouse_queue
       ELSE mouse_queue' = <<>> /\ UNCHANGED kbd_queue
    /\ UNCHANGED <<adb_side, ble_stats, hist_vars, s_scanning, scan_active, s_pending_connect, ble_task>>

\* ClientCallbacks::onDisconnect
onDisconnect(d) ==
    /\ Dev(d).link = "lost"
    /\ SetDev(d, Disconnected(Dev(d)))
    /\ UNCHANGED <<adb_side, ble_stats, queue_vars, hist_vars, s_scanning, scan_active, s_pending_connect, ble_task>>

\* ScanCallbacks::onResult, for the advertisement of a peer that is not connected
onResult(adv) ==
    /\ scan_active
    /\ \A d \in {"KBD", "MOU"} : Dev(d).link = "up" => Dev(d).bonded_addr # adv.addr
    /\ IF s_keyboard.state = "RECONNECTING" /\ s_keyboard.bonded_addr = adv.addr
       THEN /\ s_keyboard' = [s_keyboard EXCEPT !.triggered = TRUE]
            /\ scan_active' = FALSE /\ s_scanning' = FALSE
            /\ UNCHANGED <<s_mouse, s_pending_connect>>
       ELSE IF s_mouse.state = "RECONNECTING" /\ s_mouse.bonded_addr = adv.addr
       THEN /\ s_mouse' = [s_mouse EXCEPT !.triggered = TRUE]
            /\ scan_active' = FALSE /\ s_scanning' = FALSE
            /\ UNCHANGED <<s_keyboard, s_pending_connect>>
       ELSE /\ UNCHANGED <<s_keyboard, s_mouse>>
            /\ IF ~adv.hid \/ s_pending_connect # "none"
               THEN UNCHANGED <<scan_active, s_scanning, s_pending_connect>>
               ELSE IF s_keyboard.state # "DISCONNECTED" /\ s_mouse.state # "DISCONNECTED"
               THEN scan_active' = FALSE /\ s_scanning' = FALSE /\ UNCHANGED s_pending_connect
               ELSE scan_active' = FALSE /\ s_scanning' = FALSE /\ s_pending_connect' = adv.addr
    /\ UNCHANGED <<adb_side, ble_stats, queue_vars, hist_vars, ble_task>>

\* ScanCallbacks::onScanEnd
onScanEnd ==
    /\ scan_active
    /\ scan_active' = FALSE
    /\ s_scanning' = FALSE
    /\ UNCHANGED <<adb_side, ble_stats, queue_vars, hist_vars, s_keyboard, s_mouse,
                   s_pending_connect, ble_task>>

\* a faulty variant of the choice that has no skip: a peer whose slot is taken
\* goes to the free slot (C33 must reject it)
TargetSlot_never_skips(dev_is_kbd, dev_is_mouse, need_kbd, need_mouse) ==
    IF dev_is_kbd /\ need_kbd THEN "KBD"
    ELSE IF dev_is_mouse /\ need_mouse THEN "MOU"
    ELSE IF need_kbd THEN "KBD" ELSE "MOU"

\* try_connect's choice of the slot: "KBD", "MOU", or "skip"
TargetSlot(dev_is_kbd, dev_is_mouse, need_kbd, need_mouse) ==
    IF dev_is_kbd /\ need_kbd THEN "KBD"
    ELSE IF dev_is_mouse /\ need_mouse THEN "MOU"
    ELSE IF dev_is_kbd /\ ~need_kbd /\ need_mouse THEN "skip"
    ELSE IF dev_is_mouse /\ ~need_mouse /\ need_kbd THEN "skip"
    ELSE IF need_kbd THEN "KBD" ELSE "MOU"

\* try_connect from the subscription on: Connected when a characteristic was
\* subscribed and the link is still up, Disconnected with the client gone otherwise
Connected(dev, addr, as_kbd, chars, boot) ==
    IF chars # {} /\ dev.link = "up"
    THEN [dev EXCEPT !.state = "CONNECTED",
                     !.is_keyboard = as_kbd, !.is_mouse = ~as_kbd,
                     !.bonded_addr = addr, !.reconnect_attempts = 0, !.failures = 0,
                     !.subscribed = chars, !.boot_protocol = boot]
    ELSE [dev EXCEPT !.state = "DISCONNECTED", !.client = FALSE, !.link = "down",
                     !.stale_use = dev.deleted > 0, !.deleted = @ + 1]

\* where task_loop is while try_connect works on a slot
ConnectTask(d) == IF d = "KBD" THEN "connect_KBD" ELSE "connect_MOU"

\* task_loop: the pending connect, and try_connect up to the choice of the slot,
\* which becomes Connecting; when try_connect returns before that, task_loop
\* calls start_scan next if a slot is Disconnected
PendingConnect ==
    /\ ble_task = "loop"
    /\ s_pending_connect # "none"
    /\ s_pending_connect' = "none"
    /\ \E reached \in BOOLEAN :
          LET detected == detect_device_type(Peer(s_pending_connect))
              need_kbd == s_keyboard.state = "DISCONNECTED"
              need_mouse == s_mouse.state = "DISCONNECTED"
              target == TargetSlot(detected.is_keyboard, detected.is_mouse,
                                   need_kbd, need_mouse)
          IN  IF (~need_kbd /\ ~need_mouse) \/ ~reached \/ target = "skip"
              THEN /\ UNCHANGED <<s_keyboard, s_mouse>>
                   /\ ble_task' = IF need_kbd \/ need_mouse THEN "start_scan" ELSE "loop"
                   /\ last_skipped' = IF (need_kbd \/ need_mouse) /\ reached
                                      THEN s_pending_connect ELSE "none"
              ELSE /\ SetDev(target, [Dev(target) EXCEPT !.state = "CONNECTING",
                                                         !.client = TRUE,
                                                         !.deleted = 0,
                                                         !.stale_use = FALSE,
                                                         !.link = "up",
                                                         !.peer = s_pending_connect])
                   /\ ble_task' = ConnectTask(target)
                   /\ last_skipped' = "none"
    /\ UNCHANGED <<adb_side, s_ble_kbd_cb_count, s_ble_kbd_cb_dropped, queue_vars,
                   hist_vars, s_scanning, scan_active>>

\* try_connect returns; task_loop calls start_scan next if a slot is Disconnected
try_connect_return(d) ==
    /\ ble_task = ConnectTask(d)
    /\ \E ok \in SUBSET InputChars :
          SetDev(d, Connected(Dev(d), Dev(d).peer, d = "KBD",
                              try_connect_subscribe(Peer(Dev(d).peer), d = "KBD", ok),
                              boot_protocol_set(Peer(Dev(d).peer), d = "KBD", ok)))
    /\ ble_task' = IF s_keyboard'.state = "DISCONNECTED" \/ s_mouse'.state = "DISCONNECTED"
                   THEN "start_scan" ELSE "loop"
    /\ UNCHANGED <<adb_side, ble_stats, queue_vars, hist_vars, s_scanning, scan_active,
                   s_pending_connect>>

\* task_loop: the connection health check
HealthCheck(d) ==
    /\ ble_task = "loop"
    /\ Dev(d).state = "CONNECTED" /\ Dev(d).client
    /\ Dev(d).link # "up"
    /\ SetDev(d, [Dev(d) EXCEPT !.state = "RECONNECTING",
                                !.bonded_addr = Dev(d).peer,
                                !.reconnect_delay_ms = BLE_RECONNECT_INITIAL_MS,
                                !.triggered = FALSE,
                                !.reconnect_attempts = 0])
    /\ UNCHANGED <<adb_side, ble_stats, queue_vars, hist_vars, s_scanning, scan_active, s_pending_connect, ble_task>>

\* handle_reconnection up to try_reconnect's connect, in a pass of task_loop at
\* which reconnect_next_ms has been reached
handle_reconnection(d) ==
    /\ ble_task = "loop"
    /\ Dev(d).state = "RECONNECTING"
    /\ ble_task' = d
    /\ SetDev(d, [Dev(d) EXCEPT !.client = TRUE, !.triggered = FALSE,
                                !.deleted = IF Dev(d).client THEN @ ELSE 0,
                                !.stale_use = IF Dev(d).client THEN @ ELSE FALSE])
    /\ UNCHANGED <<adb_side, ble_stats, queue_vars, hist_vars, s_scanning, scan_active, s_pending_connect>>

Min(a, b) == IF a < b THEN a ELSE b

\* try_reconnect returns: success needs a live link; a failure with the link up
\* disconnects the client; then the rest of handle_reconnection: the attempt is
\* counted, and the slot is given up or the delay doubled. max bounds the failed
\* attempts that a run explores.
try_reconnect_return(d, max) ==
    /\ ble_task = d
    /\ ble_task' = "loop"
    /\ \/ /\ Dev(d).link = "up"
          /\ \E ok \in SUBSET InputChars :
                LET chars == try_reconnect_subscribe(Peer(Dev(d).bonded_addr),
                                                     Dev(d).is_keyboard, ok)
                IN  /\ chars # {}
                    /\ SetDev(d, [Dev(d) EXCEPT !.state = "CONNECTED",
                                                !.reconnect_attempts = 0,
                                                !.failures = 0,
                                                !.subscribed = chars])
       \/ /\ Dev(d).failures < max
          /\ LET dropped == [Dev(d) EXCEPT
                                !.link = IF @ = "up" THEN "lost" ELSE @,
                                !.reconnect_attempts = @ + 1,
                                !.failures = @ + 1]
             IN  SetDev(d, IF dropped.reconnect_attempts >= BLE_RECONNECT_MAX_ATTEMPTS
                           THEN [dropped EXCEPT !.state = "DISCONNECTED",
                                                !.is_keyboard = FALSE,
                                                !.is_mouse = FALSE,
                                                !.client = FALSE,
                                                !.deleted = @ + 1]
                           ELSE [dropped EXCEPT !.reconnect_delay_ms =
                                     Min(@ * 2, BLE_RECONNECT_MAX_MS),
                                                !.triggered = FALSE])
    /\ UNCHANGED <<adb_side, ble_stats, queue_vars, hist_vars, s_scanning, scan_active, s_pending_connect>>

\* start_scan up to scan->start(): called after a pending connect, or by
\* task_loop when no scan is flagged, nothing is pending and a slot is Disconnected
start_scan ==
    /\ \/ ble_task = "start_scan"
       \/ /\ ble_task = "loop"
          /\ ~s_scanning /\ s_pending_connect = "none"
          /\ s_keyboard.state = "DISCONNECTED" \/ s_mouse.state = "DISCONNECTED"
    /\ IF s_scanning
       THEN ble_task' = "loop" /\ UNCHANGED scan_active
       ELSE ble_task' = "scan_started" /\ scan_active' = TRUE
    /\ last_skipped' = "none"
    /\ UNCHANGED <<adb_side, s_ble_kbd_cb_count, s_ble_kbd_cb_dropped, queue_vars,
                   hist_vars, s_keyboard, s_mouse, s_scanning, s_pending_connect>>

\* the rest of start_scan: the flag is set after the scan was started
start_scan_return ==
    /\ ble_task = "scan_started"
    /\ s_scanning' = TRUE
    /\ ble_task' = "loop"
    /\ UNCHANGED <<adb_side, ble_stats, queue_vars, hist_vars, s_keyboard, s_mouse,
                   scan_active, s_pending_connect>>

(* ----- the BLE side next to a host that polls the keyboard ---------------- *)
MaxBlePolls == 1
MaxBleEvents == 1
BlePollBytes == {44}
\* the reports of SpecBle: a key with a modifier from the keyboard, a Boot
\* Protocol report and a short report from the mouse
BleKbdReports == {r \in KbdReports : r.modifiers = 2 /\ r.length >= 8}
BleMouseReports == {r \in MouseReports : r.length <= 3}
\* the slots whose link drops in a behaviour of SpecBle: the mouse stays in range
DroppingSlots == {"KBD"}
\* a keyboard that left is back in range at the first attempt: no try_reconnect of
\* SpecBle fails (SpecKeys and SpecRetry explore the failed attempts)

NextBle ==
    \/ \E data \in BleKbdReports : on_keyboard_report(data, MaxBleEvents)
    \/ \E data \in BleMouseReports : on_mouse_report(data, MaxBleEvents)
    \/ \E d \in {"KBD", "MOU"} :
          \/ onConnect(d) \/ onDisconnect(d) \/ HealthCheck(d)
          \/ handle_reconnection(d) \/ try_reconnect_return(d, 0)
    \/ \E d \in DroppingSlots : LinkDrop(d)
    \/ \E adv \in Advertisements : onResult(adv)
    \/ onScanEnd \/ PendingConnect \/ start_scan \/ start_scan_return
    \/ \E d \in {"KBD", "MOU"} : try_connect_return(d)
    \/ \E d \in {800} : HostPullLow(d, MaxBlePolls)
    \/ HostRelease
    \/ LoopTop \/ WaitHigh \/ WaitEdgeTimeout \/ Yield \/ Attention \/ SyncWait
    \/ RecvCommand(BlePollBytes)
    \/ HandleCommand \/ TalkKbd \/ EndIter

SpecBle == Init /\ [][NextBle]_vars

(* ----- a keyboard that types, leaves and comes back ----------------------- *)
MaxKeyReports == 3
MaxKeyFailures == 1
\* Shift-A as a keyboard sends it, a short report, two keys in one report, two
\* modifiers with another key, and a usage with no ADB key
KeyReports ==
    { [length |-> 8, modifiers |-> 2, keys |-> <<4, 0, 0, 0, 0, 0>>],
      [length |-> 8, modifiers |-> 2, keys |-> <<0, 0, 0, 0, 0, 0>>],
      [length |-> 8, modifiers |-> 0, keys |-> <<0, 0, 0, 0, 0, 0>>],
      [length |-> 3, modifiers |-> 2, keys |-> <<5, 0, 0, 0, 0, 0>>],
      [length |-> 8, modifiers |-> 0, keys |-> <<5, 4, 0, 0, 0, 0>>],
      [length |-> 8, modifiers |-> 3, keys |-> <<5, 0, 0, 0, 0, 0>>],
      [length |-> 8, modifiers |-> 0, keys |-> <<1, 0, 0, 0, 0, 0>>] }

NextKeys ==
    \/ \E data \in KeyReports : on_keyboard_report(data, MaxKeyReports)
    \/ \E adv \in {[addr |-> "K", hid |-> TRUE]} : onResult(adv)
    \/ onScanEnd \/ PendingConnect \/ start_scan \/ start_scan_return
    \/ \E d \in {"KBD"} :
          \/ try_connect_return(d)
          \/ LinkDrop(d) \/ onDisconnect(d) \/ HealthCheck(d) \/ onConnect(d)
          \/ handle_reconnection(d) \/ try_reconnect_return(d, MaxKeyFailures)

SpecKeys == Init /\ [][NextKeys]_vars

(* ----- a keyboard whose reconnect attempts fail ---------------------------- *)
MaxRetryFailures == 10

NextRetry ==
    \/ \E adv \in {[addr |-> "K", hid |-> TRUE]} : onResult(adv)
    \/ onScanEnd \/ PendingConnect \/ start_scan \/ start_scan_return
    \/ \E d \in {"KBD"} :
          \/ try_connect_return(d)
          \/ LinkDrop(d) \/ onDisconnect(d) \/ HealthCheck(d) \/ onConnect(d)
          \/ handle_reconnection(d) \/ try_reconnect_return(d, MaxRetryFailures)

SpecRetry == Init /\ [][NextRetry]_vars

(* ----- first connects of peers of every kind ------------------------------- *)
MaxDetectEvents == 2
DetectPeers == {"K", "M", "U", "A", "N", "R"}

NextDetect ==
    \/ \E addr \in DetectPeers : onResult([addr |-> addr, hid |-> TRUE])
    \/ onScanEnd \/ PendingConnect \/ start_scan \/ start_scan_return
    \/ \E d \in {"KBD", "MOU"} : try_connect_return(d)
    \/ \E data \in KbdReports : on_keyboard_report(data, MaxDetectEvents)
    \/ \E data \in MouseReports : on_mouse_report(data, MaxDetectEvents)

SpecDetect == Init /\ [][NextDetect]_vars

(* ======================================================================= *)
(* The claims of the specification                                         *)
(* ======================================================================= *)
\* the device state C5 lists: address, handler, ring, register2, accumulators,
\* button flags
device_state == <<kbd_address, kbd_handler, key_buf, key_head, key_tail, register2,
                  mouse_address, mouse_handler, accum_dx, accum_dy,
                  button_pressed, button_changed>>

\* the bytes in the ring, oldest first
RingBytes ==
    [i \in 1..((key_head - key_tail) % KEY_BUF_SIZE) |->
        key_buf[(key_tail + i - 1) % KEY_BUF_SIZE]]

KeyBytes(q) == [i \in 1..Len(q) |-> KeyByte(q[i])]

\* the steps the claims speak of
ListenStep == pc = "listen" /\ pc' = "end_iter"
TalkStep == pc = "talk" /\ pc' = "end_iter"
ResetStep == pc = "reset" /\ pc' = "end_iter"
GlobalResetStep == pc = "measure" /\ frame'.op = "global_reset"
StopBitStep == pc = "handle" /\ pc' # "handle"

\* C1: in every reachable state, after any Listen R3 payloads, Flush, Reset and
\* global reset, neither the keyboard's nor the mouse's address is 0 or 0xFE.
\* Refuted: a Listen R3 whose address byte is 0x10 passes the test against 0 and
\* 0xFE and is then masked to 0.
C1_AddressNeverReserved ==
    /\ kbd_address \notin {0, 254}
    /\ mouse_address \notin {0, 254}

\* C2: with no queue overflow and no Flush/Reset, the dx7 (dy7) values reported by
\* Talk R0 so far plus the accumulator residual equal the sum of the dx (dy) of
\* all dequeued events.  Checked under SpecMouse.  Refuted: the 16-bit accumulator
\* wraps when the dequeued motion does not fit it.
C2_MotionConserved ==
    /\ moved.out_dx + accum_dx = moved.in_dx
    /\ moved.out_dy + accum_dy = moved.in_dy

\* C3: when no push is rejected by the queue and the host only issues Talk R0 to
\* the keyboard, no key event is lost on its way to the bus: the bytes already
\* returned, then the bytes in the ring, then the queued events are exactly the
\* accepted events in order (so polling on returns every one of them).  Checked
\* under SpecKbd.  Refuted: the ring stores 31 bytes and process_queue drops what
\* does not fit.
C3_NoKeyLost ==
    delivered \o RingBytes \o KeyBytes(kbd_queue) = KeyBytes(accepted)

\* C4: whenever the host has held the bus low for at least 2800 us, both devices
\* are reset to their defaults, whatever the loop was doing when the pulse began:
\* once such a pulse is over and the loop waits for the next edge, both devices
\* hold their defaults.  Refuted: a pulse that begins while the loop is in
\* vTaskDelay or finishing a frame is only waited out at the top of the loop.
C4_ResetPulseResets ==
    (reset_pulse /\ line = "high" /\ pc = "wait_edge") => (KbdDefaults /\ MouseDefaults)

\* C5: a frame in which a receive primitive timed out or saw a malformed start
\* bit leaves the keyboard and mouse device state as it was: no step of a frame
\* that carries a receive error changes device state.  Refuted: the waits for the
\* command's stop bit and for the Listen stop bit are not looked at.
C5_ErrorFrameNoEffect ==
    [][frame'.err # "none" => UNCHANGED device_state]_vars

\* C6: during the stop bit of every valid command SRQ is asserted iff (a) the
\* command addresses neither device and the keyboard or the mouse has pending
\* data, or (b) it addresses one device and the other device has pending data
\* (the keyboard is the addressed one when both hold the command's address); and
\* a keyboard Talk R0 with a pending event returns it.
C6_SrqIffOtherPending ==
    [][/\ StopBitStep =>
            (frame'.srq <=>
                \/ /\ cmd.address # kbd_address
                   /\ cmd.address # mouse_address
                   /\ (kbd_has_data \/ mouse_has_data)
                \/ cmd.address = kbd_address /\ mouse_has_data
                \/ /\ cmd.address = mouse_address
                   /\ cmd.address # kbd_address
                   /\ kbd_has_data)
       /\ (TalkStep /\ cmd.address = kbd_address /\ cmd.reg = 0 /\ kbd_has_data) =>
            (frame'.resp >= 0 /\ Len(delivered') > Len(delivered))
      ]_vars

\* C6's case: one keyboard event queued, the mouse idle, Talk R0 to the mouse was
\* answered with SRQ and no response
C6_Witness ==
    /\ pc = "end_iter"
    /\ frame.op = "talk" /\ frame.dev = "mouse" /\ frame.reg = 0
    /\ frame.srq /\ frame.resp = -1
    /\ Len(kbd_queue) = 1 /\ mouse_queue = <<>>

\* C7: a Talk R0 to the keyboard with queue and ring empty, or to the mouse with
\* the queue empty, both accumulators 0 and button_changed false, has no
\* response (the line is not driven after the stop bit) and does not count as a
\* Talk response.
C7_IdleTalkSilent ==
    [][(/\ TalkStep
        /\ cmd.reg = 0
        /\ \/ /\ cmd.address = kbd_address
              /\ kbd_queue = <<>> /\ key_head = key_tail
           \/ /\ cmd.address # kbd_address
              /\ mouse_queue = <<>> /\ accum_dx = 0 /\ accum_dy = 0 /\ ~button_changed)
       => (frame'.resp = -1 /\ talk_response_count' = talk_response_count)
      ]_vars

\* C7's case: an idle mouse was polled with Talk R0 and stayed silent
C7_Witness ==
    /\ pc = "end_iter"
    /\ frame.op = "talk" /\ frame.dev = "mouse" /\ frame.reg = 0
    /\ frame.resp = -1 /\ talk_response_count = 0 /\ poll_count > 0
    /\ mouse_queue = <<>> /\ accum_dx = 0 /\ accum_dy = 0 /\ ~button_changed

\* C8 as stated: an address changes value only as the effect of a Listen R3 whose
\* proposed address byte is neither 0 nor 0xFE; Talk, Flush, Reset, global reset,
\* Listen to other registers and queue activity change no address.  Refuted by
\* Reset and global reset, which put a moved device back at its default address.
C8_AddressOnlyByListenR3 ==
    [][(kbd_address' # kbd_address \/ mouse_address' # mouse_address) =>
          /\ ListenStep
          /\ cmd.reg = 3
          /\ frame'.data >= 0
          /\ (frame'.data \div 256) \notin {0, 254}
      ]_vars

\* C8 amended: an address changes value only as the effect of a Listen R3 to that
\* device whose proposed address byte is neither 0 nor 0xFE (it becomes that byte
\* masked to 4 bits), or of a Reset command to that device or a global reset (it
\* becomes the default, 2 for the keyboard and 3 for the mouse).
C8_AddressByListenR3OrReset ==
    [][/\ kbd_address' # kbd_address =>
            \/ /\ ListenStep
               /\ cmd.reg = 3 /\ cmd.address = kbd_address
               /\ frame'.data >= 0
               /\ (frame'.data \div 256) \notin {0, 254}
               /\ kbd_address' = (frame'.data \div 256) % 16
            \/ ResetStep /\ cmd.address = kbd_address /\ kbd_address' = 2
            \/ GlobalResetStep /\ kbd_address' = 2
       /\ mouse_address' # mouse_address =>
            \/ /\ ListenStep
               /\ cmd.reg = 3 /\ cmd.address = mouse_address
               /\ frame'.data >= 0
               /\ (frame'.data \div 256) \notin {0, 254}
               /\ mouse_address' = (frame'.data \div 256) % 16
            \/ ResetStep /\ cmd.address = mouse_address /\ mouse_address' = 3
            \/ GlobalResetStep /\ mouse_address' = 3
      ]_vars

\* C8's case: a Reset command sent to the keyboard at address 6 has put it back
\* at address 2
C8_Witness ==
    /\ pc = "end_iter"
    /\ frame.op = "reset" /\ frame.dev = "kbd"
    /\ cmd.address = 6
    /\ kbd_address = 2

\* C9: for either device and every Listen R3 payload with high byte a and low
\* byte h, the address becomes a masked to 4 bits iff a is neither 0 nor 0xFE and
\* is otherwise unchanged, the handler becomes h iff h is neither 0 nor 0xFE and
\* is otherwise unchanged, independently of each other; a Talk R3 returns
\* ((0x60 | address) << 8) | handler; payload 0x0600 gives address 6 with the
\* handler unchanged and payload 0x00FE changes nothing.
C9_ListenR3TalkR3 ==
    [][/\ (ListenStep /\ cmd.reg = 3 /\ frame'.data >= 0) =>
            LET a == frame'.data \div 256
                h == frame'.data % 256
                to_kbd == cmd.address = kbd_address
                address == IF to_kbd THEN kbd_address ELSE mouse_address
                handler == IF to_kbd THEN kbd_handler ELSE mouse_handler
                address1 == IF to_kbd THEN kbd_address' ELSE mouse_address'
                handler1 == IF to_kbd THEN kbd_handler' ELSE mouse_handler'
            IN  /\ address1 = IF a \notin {0, 254} THEN a % 16 ELSE address
                /\ handler1 = IF h \notin {0, 254} THEN h ELSE handler
                /\ frame'.data = 1536 => (address1 = 6 /\ handler1 = handler)
                /\ frame'.data = 254 => (address1 = address /\ handler1 = handler)
       /\ (TalkStep /\ cmd.reg = 3) =>
            LET to_kbd == cmd.address = kbd_address
                address == IF to_kbd THEN kbd_address ELSE mouse_address
                handler == IF to_kbd THEN kbd_handler ELSE mouse_handler
            IN  frame'.resp = (96 + address) * 256 + handler
      ]_vars

\* C9's case: Listen R3 with payload 0x0600 has just moved the keyboard to
\* address 6 and left its handler alone
C9_Witness ==
    /\ pc = "end_iter"
    /\ frame.op = "listen" /\ frame.reg = 3 /\ frame.dev = "kbd"
    /\ frame.data = 1536
    /\ kbd_address = 6 /\ kbd_handler = 2

FlushStep == pc = "flush" /\ pc' = "end_iter"

\* C11: a keyboard Flush empties the ring and leaves address, handler, register2
\* and the keyboard queue as they were; the events that were in the queue at the
\* Flush are still delivered by the next Talk R0: after it they are in its
\* response or in the ring behind it, in order.  Checked under SpecKbdFlush, where
\* the events are queued before the Flush and the ring is empty at the Talk R0.
\* Refuted: of 32 queued events the drain of the Talk R0 drops the last (C3).
C11_FlushKeepsQueued ==
    [][/\ (FlushStep /\ cmd.address = kbd_address) =>
            /\ key_head' = key_tail'
            /\ UNCHANGED <<kbd_address, kbd_handler, register2, kbd_queue>>
       /\ (TalkStep /\ cmd.address = kbd_address /\ cmd.reg = 0 /\ poll_count = 2) =>
            delivered' \o RingBytes' = KeyBytes(kbd_queue)
      ]_vars

\* C12: a mouse Flush sets accum_dx and accum_dy to 0 and button_changed to
\* false, and leaves button_pressed, address, handler and the mouse queue as they
\* were.
C12_MouseFlush ==
    [][(FlushStep /\ cmd.address = mouse_address) =>
          /\ accum_dx' = 0 /\ accum_dy' = 0 /\ button_changed' = FALSE
          /\ UNCHANGED <<button_pressed, mouse_address, mouse_handler, mouse_queue>>
      ]_vars

\* C12's case: a mouse whose one event (button down, motion left over after the
\* report) a Talk R0 had taken in has just been flushed: the residual is gone, the
\* button is still down
C12_Witness ==
    /\ pc = "end_iter"
    /\ frame.op = "flush" /\ frame.dev = "mouse"
    /\ events_from_queue = 1 /\ moved = NoMotion
    /\ accum_dx = 0 /\ accum_dy = 0 /\ ~button_changed
    /\ button_pressed

\* C13: a low pulse whose measured duration is neither in [560, 1040] us nor at
\* least 2800 us is noise: no command is received or dispatched, no SRQ and no
\* response is driven, and device state and both queues stay as they are.
C13_NoiseIgnored ==
    [][(/\ pc = "measure" /\ pc' # "measure"
        /\ ~(low_duration >= 560 /\ low_duration <= 1040)
        /\ low_duration < 2800)
       => /\ pc' = "end_iter"
          /\ ~frame'.srq /\ frame'.resp = -1 /\ frame'.op = "noise"
          /\ UNCHANGED <<device_state, queue_vars, cmd, poll_count, talk_response_count>>
      ]_vars

\* C13's case: a pulse was just taken for noise while a key event was waiting and
\* after the host had moved the keyboard: both are as they were
C13_Witness ==
    /\ pc = "end_iter"
    /\ frame.op = "noise"
    /\ Len(kbd_queue) = 1
    /\ kbd_address = 6

\* C14: under any interleaving of pushes with the loop, when a Talk R0 handler
\* computes its response every event enqueued before the handler started has left
\* the device's queue and is reflected in the state the response is made from:
\* the keyboard's ring holds their bytes behind what it held (the bytes the
\* response takes are its oldest), the mouse's accumulators have their motion
\* added (as 16-bit values) and button_pressed is the last event's button.
\* Checked under SpecKbd.  Refuted: a drained key event that finds the ring full
\* is in neither the queue nor the ring (C3).
C14_TalkSeesAllQueued ==
    [][(TalkStep /\ cmd.reg = 0) =>
          IF cmd.address = kbd_address
          THEN /\ kbd_queue' = <<>>
               /\ (delivered' \o RingBytes') =
                      (delivered \o RingBytes \o KeyBytes(kbd_queue))
          ELSE /\ mouse_queue' = <<>>
               /\ events_from_queue' = events_from_queue + Len(mouse_queue)
               /\ mouse_queue # <<>> =>
                      button_pressed' = mouse_queue[Len(mouse_queue)].button
               /\ (accum_dx' + (moved'.out_dx - moved.out_dx)
                     - (accum_dx + SumOf(mouse_queue, "dx"))) % 65536 = 0
               /\ (accum_dy' + (moved'.out_dy - moved.out_dy)
                     - (accum_dy + SumOf(mouse_queue, "dy"))) % 65536 = 0
      ]_vars

(* ----- C15 --------------------------------------------------------------- *)
\* q2 is q with events appended at its end
Extends(q2, q) == Len(q2) >= Len(q) /\ SubSeq(q2, 1, Len(q)) = q

\* a step of the BLE side: neither bus_loop nor the host moved
BleStep == pc' = pc /\ line' = line

KbdDrainStep == TalkStep /\ cmd.reg = 0 /\ is_kbd
MouseDrainStep == TalkStep /\ cmd.reg = 0 /\ ~is_kbd /\ is_mouse

\* the keyboard's bytes that left the queue so far, oldest first
Drained == delivered \o RingBytes

\* C16: the keyboard queue never holds more than 32 events and the mouse queue
\* never more than 64; a push onto a full queue is rejected and leaves the queue as
\* it was, a push onto any other queue appends the event at the end; a Talk R0
\* whose queue is empty is not held up (its handler can run, and it leaves the
\* queue empty); and the events leave a queue in the order they were pushed: the
\* key bytes a drain hands to the ring are the queue's events from its head on,
\* and the mouse button after a drain is the button of the last event pushed.
C16_QueueContract ==
    /\ [](Len(kbd_queue) <= KBD_QUEUE_SIZE /\ Len(mouse_queue) <= MOUSE_QUEUE_SIZE)
    /\ [](pc = "talk" /\ is_kbd /\ kbd_queue = <<>> => ENABLED TalkKbd)
    /\ [](pc = "talk" /\ ~is_kbd /\ mouse_queue = <<>> => ENABLED TalkMouse)
    /\ [][ /\ kbd_pushed' > kbd_pushed =>
                 IF Len(kbd_queue) = KBD_QUEUE_SIZE
                 THEN kbd_queue' = kbd_queue /\ accepted' = accepted
                 ELSE /\ Len(kbd_queue') = Len(kbd_queue) + 1
                      /\ Extends(kbd_queue', kbd_queue)
                      /\ accepted' = Append(accepted, kbd_queue'[Len(kbd_queue')])
           /\ mouse_pushed' > mouse_pushed =>
                 IF Len(mouse_queue) = MOUSE_QUEUE_SIZE
                 THEN mouse_queue' = mouse_queue
                 ELSE /\ Len(mouse_queue') = Len(mouse_queue) + 1
                      /\ Extends(mouse_queue', mouse_queue)
           /\ KbdDrainStep =>
                 /\ kbd_queue' = <<>>
                 /\ Len(Drained') - Len(Drained) <= Len(kbd_queue)
                 /\ Drained' = Drained \o SubSeq(KeyBytes(kbd_queue), 1,
                                                 Len(Drained') - Len(Drained))
           /\ MouseDrainStep =>
                 /\ mouse_queue' = <<>>
                 /\ events_from_queue' = events_from_queue + Len(mouse_queue)
                 /\ button_pressed' = IF mouse_queue = <<>> THEN button_pressed
                                      ELSE mouse_queue[Len(mouse_queue)].button
         ]_vars

\* C16 witness: both queues rejected a push (33 key events and 65 mouse events
\* were pushed), and both were then drained by a Talk R0.
C16_Witness ==
    /\ kbd_pushed = KBD_QUEUE_SIZE + 1 /\ Len(accepted) = KBD_QUEUE_SIZE
    /\ mouse_pushed = MOUSE_QUEUE_SIZE + 1
    /\ events_from_queue = MOUSE_QUEUE_SIZE
    /\ Len(delivered) > 0
    /\ kbd_queue = <<>> /\ mouse_queue = <<>>

(* ----- C17 --------------------------------------------------------------- *)
\* [released_flag:1 | adb_keycode:7]
PackedKey(evt) == (IF evt.released THEN 128 ELSE 0) + (evt.adb_keycode % 128)
PackedKeys(q) == [i \in 1..Len(q) |-> PackedKey(q[i])]

\* the place of a byte among the accepted events (each byte occurs once in them)
PlaceOf(byte) == CHOOSE k \in 1..Len(accepted) : PackedKey(accepted[k]) = byte

\* C17: a keyboard Talk R0 first drains the queue into the ring (packing each event
\* as (released ? 0x80 : 0) | (adb_keycode & 0x7F)); when the ring is then empty
\* it sends nothing, else it removes the oldest byte and returns it as the high
\* byte and removes the next-oldest as the low byte, or uses 0xFF when there is
\* none. Across the responses the events appear in the order they were pushed:
\* every byte returned is an accepted event's byte, and a byte returned earlier
\* was pushed earlier.
C17_KbdTalkR0 ==
    /\ [][ KbdDrainStep =>
             LET n == Len(Drained') - Len(Drained)
                 ring == RingBytes \o SubSeq(PackedKeys(kbd_queue), 1, n)
                 k == IF Len(ring) < 2 THEN Len(ring) ELSE 2
             IN  /\ n >= 0 /\ n <= Len(kbd_queue)
                 /\ delivered' = delivered \o SubSeq(ring, 1, k)
                 /\ RingBytes' = SubSeq(ring, k + 1, Len(ring))
                 /\ frame'.resp = IF k = 0 THEN -1
                                  ELSE ring[1] * 256 + (IF k = 2 THEN ring[2] ELSE 255)
         ]_vars
    /\ [](/\ \A i \in 1..Len(delivered) :
                \E j \in 1..Len(accepted) : PackedKey(accepted[j]) = delivered[i]
          /\ \A i, j \in 1..Len(delivered) :
                i < j => PlaceOf(delivered[i]) < PlaceOf(delivered[j]))

\* C17 witness: key 0x00 was pressed and polled (0x00FF), then released and polled
\* (0x80FF, the response of the frame just finished).
C17_Witness ==
    /\ accepted = <<[adb_keycode |-> 0, released |-> FALSE],
                    [adb_keycode |-> 0, released |-> TRUE]>>
    /\ delivered = <<0, 128>>
    /\ talk_response_count = 2
    /\ frame.op = "talk" /\ frame.resp = 33023
    /\ pc = "end_iter"

(* ----- C18 --------------------------------------------------------------- *)
Clamp(val, lo, hi) == IF val < lo THEN lo ELSE IF val > hi THEN hi ELSE val

\* the mouse's accumulators and button after process_queue has drained the queue
MouseDrained ==
    MouseDrain(mouse_queue, [dx |-> accum_dx, dy |-> accum_dy, pressed |-> button_pressed,
                             changed |-> button_changed, n |-> events_from_queue])

\* C18: a mouse Talk R0 that has something to report after draining the queue
\* (a non-zero accumulator or a changed button) returns (byte0 << 8) | byte1 with
\* dx7 = clamp(accum_dx, -64, 63), dy7 = clamp(accum_dy, -64, 63),
\* byte0 = (button_pressed ? 0 : 0x80) | (dy7 & 0x7F), byte1 = 0x80 | (dx7 & 0x7F),
\* subtracts dx7 and dy7 from the accumulators and clears button_changed. A single
\* event dx = 200, dy = -200, button up, met with zero accumulators and the button
\* up, gives 0xC0BF and leaves accum_dx = 137, accum_dy = -136.
C18_MouseTalkR0 ==
    [][ MouseDrainStep =>
          LET m == MouseDrained
              dx7 == Clamp(m.dx, -64, 63)
              dy7 == Clamp(m.dy, -64, 63)
              byte0 == (IF m.pressed THEN 0 ELSE 128) + (dy7 % 128)
              byte1 == 128 + (dx7 % 128)
          IN  /\ (m.dx # 0 \/ m.dy # 0 \/ m.changed) =>
                    /\ frame'.resp = byte0 * 256 + byte1
                    /\ accum_dx' = m.dx - dx7
                    /\ accum_dy' = m.dy - dy7
                    /\ button_pressed' = m.pressed
                    /\ ~button_changed'
              /\ ( /\ mouse_queue = <<[dx |-> 200, dy |-> -200, button |-> FALSE]>>
                   /\ accum_dx = 0 /\ accum_dy = 0
                   /\ ~button_pressed /\ ~button_changed ) =>
                    frame'.resp = 49343 /\ accum_dx' = 137 /\ accum_dy' = -136
      ]_vars

\* C18 witness: the first Talk R0 found the single event (200, -200, button up) and
\* answered 0xC0BF, leaving 137 and -136.
C18_Witness ==
    /\ talk_response_count = 1 /\ events_from_queue = 1
    /\ frame.op = "talk" /\ frame.resp = 49343
    /\ accum_dx = 137 /\ accum_dy = -136
    /\ pc = "end_iter"

(* ----- C19 --------------------------------------------------------------- *)
Abs(x) == IF x < 0 THEN -x ELSE x

\* a Talk R0 poll moves a non-zero accumulator strictly closer to 0, by 64 at most
\* and not past 0, and leaves a zero accumulator at 0
CloserToZero(before, after) ==
    IF before = 0 THEN after = 0
    ELSE /\ Abs(after) < Abs(before)
         /\ Abs(before - after) <= 64
         /\ (before > 0 => after >= 0) /\ (before < 0 => after <= 0)

\* C19: with no new mouse events in the queue, every mouse Talk R0 poll moves each
\* non-zero accumulator strictly closer to 0, by at most 63 or 64 counts, so that
\* finitely many polls (at most 521 from any 16-bit value) bring both to 0; with
\* both at 0 and no button change pending, a Talk R0 returns no data and the
\* mouse reports no pending data for SRQ.
C19_PollsDrainMotion ==
    /\ [][ MouseDrainStep /\ mouse_queue = <<>> =>
             /\ CloserToZero(accum_dx, accum_dx')
             /\ CloserToZero(accum_dy, accum_dy')
             /\ ~button_changed'
             /\ (accum_dx = 0 /\ accum_dy = 0 /\ ~button_changed) => frame'.resp = -1
         ]_vars
    /\ [](accum_dx = 0 /\ accum_dy = 0 /\ ~button_changed /\ mouse_queue = <<>>
             => ~mouse_has_data)

\* C19 witness: one event (70, -70) was reported in two polls (63/-64, then 7/-6),
\* the accumulators are back at 0, and the third poll got no data.
C19_Witness ==
    /\ moved.in_dx = 70 /\ moved.out_dx = 70 /\ moved.in_dy = -70 /\ moved.out_dy = -70
    /\ accum_dx = 0 /\ accum_dy = 0
    /\ talk_response_count = 2 /\ poll_count = 3
    /\ frame.op = "talk" /\ frame.resp = -1
    /\ ~mouse_has_data

(* ----- C20 --------------------------------------------------------------- *)
\* C20: the key ring holds up to 32 packed key events at once: when a Talk R0
\* drains a queue of up to 32 events into an empty ring, every one of them is
\* stored (it is returned in this response or is in the ring afterwards) and none
\* is discarded.  Checked under SpecKbd.  Refuted: buf_full reports a full ring at
\* 31 bytes, and buf_push discards the 32nd.
C20_RingHolds32 ==
    [][ KbdDrainStep /\ buf_empty(key_head, key_tail) /\ Len(kbd_queue) <= KEY_BUF_SIZE =>
          Drained' = Drained \o KeyBytes(kbd_queue)
      ]_vars
(* ----- C21 --------------------------------------------------------------- *)
\* a step of on_keyboard_report, and the events it appended to the queue
KbdReportStep == s_ble_kbd_cb_count' = s_ble_kbd_cb_count + 1
AppendedKeys == SubSeq(kbd_queue', Len(kbd_queue) + 1, Len(kbd_queue'))
ModifierCodes == {MODIFIER_MAP[i].adb_keycode : i \in 1..8}
\* 1 for a modifier event, 2 for a key release, 3 for a key press
PhaseOf(e) == IF e.adb_keycode \in ModifierCodes THEN 1 ELSE IF e.released THEN 2 ELSE 3
\* the events that tell the stored report p from the stored report n
ReportDiff(p, n) ==
    { [adb_keycode |-> MODIFIER_MAP[i].adb_keycode,
       released |-> ~HasBit(n.prev_modifiers, MODIFIER_MAP[i].usb_mask)] :
         i \in {j \in 1..8 : HasBit(n.prev_modifiers, MODIFIER_MAP[j].usb_mask)
                                # HasBit(p.prev_modifiers, MODIFIER_MAP[j].usb_mask)} }
    \cup { [adb_keycode |-> usb_to_adb(p.prev_keys[i]), released |-> TRUE] :
              i \in {j \in 1..6 : /\ p.prev_keys[j] # 0
                                   /\ ~InKeys(p.prev_keys[j], n.prev_keys)
                                   /\ usb_to_adb(p.prev_keys[j]) # ADB_KEY_NONE} }
    \cup { [adb_keycode |-> usb_to_adb(n.prev_keys[i]), released |-> FALSE] :
              i \in {j \in 1..6 : /\ n.prev_keys[j] # 0
                                   /\ ~InKeys(n.prev_keys[j], p.prev_keys)
                                   /\ usb_to_adb(n.prev_keys[j]) # ADB_KEY_NONE} }

\* C21: a keyboard report of 8 bytes or more appends the modifier changes, then
\* the key releases, then the key presses (each event once, and exactly the
\* events that tell the report from the previous one), and the report becomes the
\* previous one; a report shorter than 8 bytes appends nothing, leaves the
\* previous report as it is and increments the dropped counter.
C21_ReportOrder ==
    [][ KbdReportStep =>
          IF s_ble_kbd_cb_dropped' # s_ble_kbd_cb_dropped
          THEN /\ s_ble_kbd_cb_dropped' = s_ble_kbd_cb_dropped + 1
               /\ kbd_queue' = kbd_queue
               /\ s_keyboard' = s_keyboard
          ELSE /\ Extends(kbd_queue', kbd_queue)
               /\ \A i, j \in 1..Len(AppendedKeys) :
                     i < j => /\ PhaseOf(AppendedKeys[i]) <= PhaseOf(AppendedKeys[j])
                              /\ AppendedKeys[i] # AppendedKeys[j]
               /\ {AppendedKeys[i] : i \in 1..Len(AppendedKeys)}
                     = ReportDiff(s_keyboard, s_keyboard')
      ]_vars

\* C21 witness: Shift-A sent as three reports left shift-down, A-down, A-up and
\* shift-up in the queue, in this order.
C21_Witness ==
    /\ s_ble_kbd_cb_count = 3 /\ s_ble_kbd_cb_dropped = 0
    /\ kbd_queue = << [adb_keycode |-> 56, released |-> FALSE],
                      [adb_keycode |-> 0, released |-> FALSE],
                      [adb_keycode |-> 0, released |-> TRUE],
                      [adb_keycode |-> 56, released |-> TRUE] >>

\* C21 witness of the short report: one was dropped after a key was pressed
C21_WitnessShort ==
    /\ s_ble_kbd_cb_dropped = 1 /\ kbd_queue # <<>>
    /\ s_keyboard.prev_keys # <<0, 0, 0, 0, 0, 0>>

(* ----- C22 --------------------------------------------------------------- *)
\* the keys that are down for the host once it has read every event of evts: the
\* last event of the key is a press
HeldOnAdb(evts) ==
    { evts[i].adb_keycode : i \in { j \in 1..Len(evts) :
          /\ ~evts[j].released
          /\ \A l \in (j + 1)..Len(evts) : evts[l].adb_keycode # evts[j].adb_keycode } }
\* the keys and modifiers that the stored report of slot dev holds down
HeldInReport(dev) ==
    { usb_to_adb(dev.prev_keys[i]) : i \in {j \in 1..6 : dev.prev_keys[j] # 0} }
    \cup { MODIFIER_MAP[i].adb_keycode :
              i \in {j \in 1..8 : HasBit(dev.prev_modifiers, MODIFIER_MAP[j].usb_mask)} }

\* C22: after every full keyboard report, the first one after a reconnect
\* included, a key that is down on the ADB side (its press was enqueued and no
\* release after it) is a key that the report holds down: the release of a key
\* held when the link dropped has been enqueued by then.
C22_NoStuckKey ==
    [][ KbdReportStep /\ s_ble_kbd_cb_dropped' = s_ble_kbd_cb_dropped
          => HeldOnAdb(accepted') \subseteq HeldInReport(s_keyboard')
      ]_vars

(* ----- C23 --------------------------------------------------------------- *)
\* C23: a slot whose reconnect attempts failed 10 times since it was last
\* Connected, whatever the kind of each failure, is Disconnected with its client
\* destroyed and its device-type flags cleared.
C23_GivesUpAfterTen ==
    \A d \in {"KBD", "MOU"} :
        Dev(d).failures >= BLE_RECONNECT_MAX_ATTEMPTS =>
            /\ Dev(d).state = "DISCONNECTED"
            /\ ~Dev(d).client
            /\ ~Dev(d).is_keyboard /\ ~Dev(d).is_mouse

(* ----- C24 --------------------------------------------------------------- *)
\* the peers with neither Boot input characteristic and no keyboard or mouse usage
\* in a Report Map, the peers without a readable Report Map included
Unclassified ==
    { addr \in DetectPeers :
        /\ ~Peer(addr).boot_kbd /\ ~Peer(addr).boot_mouse
        /\ \/ ~Peer(addr).report_map
           \/ ~Peer(addr).can_read
           \/ (6 \notin Peer(addr).usages /\ 2 \notin Peer(addr).usages) }

\* C24: a peer with no Boot input characteristic and no keyboard or mouse usage
\* from its Report Map (absent and unreadable maps included) never holds the mouse
\* slot.
C24_UnknownNeverMouse ==
    s_mouse.state = "CONNECTED" => s_mouse.bonded_addr \notin Unclassified

(* ----- C25 --------------------------------------------------------------- *)
\* the positions of bus_loop inside the interrupt-masked window: receive_command,
\* and handle_command up to the end of the stop bit
MaskedPcs == {"recv_cmd", "handle"}

\* C25: interrupts are off only while the command byte is received and the stop
\* bit consumed: at the top of the loop, in its waits, in vTaskDelay, in the
\* device handlers (Tlt and the wait for a Listen start bit included) and at the
\* end of an iteration they are on, after valid, invalid and unaddressed commands
\* and failed Listen receives alike. Interrupts go off only from on and on only
\* from off: off when the command receive starts, on when it ends with an invalid
\* byte or when handle_command has consumed the stop bit; a handler starts and
\* ends with interrupts on.
C25_IntsScoped ==
    [][ /\ pc' \notin MaskedPcs => ints_enabled'
        /\ pc' \in MaskedPcs => ~ints_enabled'
        /\ pc = "sync" /\ pc' = "recv_cmd" => ints_enabled /\ ~ints_enabled'
        /\ pc \in MaskedPcs /\ pc' \notin MaskedPcs => ~ints_enabled /\ ints_enabled'
        /\ pc \in {"talk", "listen", "flush", "reset"} /\ pc' # pc
              => ints_enabled /\ ints_enabled'
      ]_vars

\* C25 witness: an invalid command byte ended the iteration with interrupts on
C25_Witness ==
    pc = "end_iter" /\ frame.err = "cmd_bit" /\ ~cmd.valid /\ ints_enabled

\* C25 witness of another exit: an unaddressed command ended the iteration
C25_WitnessUnaddressed ==
    pc = "end_iter" /\ frame.op = "unaddressed" /\ ints_enabled

(* ----- C26 --------------------------------------------------------------- *)
\* C26: bus_loop enters vTaskDelay only from its wait for a falling edge, when the
\* line stayed high for the whole wait, or from the end of an iteration that
\* brings the count to 256 (the count then restarts); never from a position
\* between the measuring of a pulse and the end of the command's handler.
C26_YieldOnlyIdle ==
    [][ pc' = "yield" /\ pc # "yield" =>
          \/ pc = "wait_edge" /\ line = "high" /\ line' = "high"
          \/ pc = "end_iter" /\ yield_counter + 1 >= YIELD_PERIOD /\ yield_counter' = 0
      ]_vars

(* ----- C27 --------------------------------------------------------------- *)
\* the bridge's output after the pin calls of ops: released unless the last call
\* was drive_low
OutputAfter(ops) ==
    IF ops # <<>> /\ ops[Len(ops)].call = "drive_low" THEN "low" ELSE "released"
\* every drive_low of ops is followed at once by a release
EachDriveReleased(ops) ==
    \A i \in 1..Len(ops) :
        ops[i].call = "drive_low" => i < Len(ops) /\ ops[i + 1].call = "release"
DrivesLow(ops) == {i \in 1..Len(ops) : ops[i].call = "drive_low"}

\* C27: wherever bus_loop stands between two of its steps (at its top, in a wait,
\* before a receive, before or after a handler) the bridge's output is released;
\* the drive_low calls of a frame are the one of its SRQ (if it asserted SRQ) and
\* the 18 of its Talk response (if it sent one), and each is followed by a
\* release before the next call.
C27_DriveOnlyTalkOrSrq ==
    /\ OutputAfter(frame.pin) = "released"
    /\ EachDriveReleased(frame.pin)
    /\ Cardinality(DrivesLow(frame.pin))
         = (IF frame.srq THEN 1 ELSE 0) + (IF frame.resp # -1 THEN 18 ELSE 0)

\* C27 witness: a frame with SRQ and a Talk response is over and the output is
\* released after the 19 low phases the bridge drove
C27_Witness ==
    /\ pc = "end_iter" /\ frame.srq /\ frame.resp # -1
    /\ Len(frame.pin) = 38 /\ OutputAfter(frame.pin) = "released"

(* ----- C28 --------------------------------------------------------------- *)
ListedEdges ==
    { <<"DISCONNECTED", "SCANNING">>, <<"SCANNING", "CONNECTING">>,
      <<"CONNECTING", "DISCOVERING">>, <<"DISCOVERING", "CONNECTED">>,
      <<"DISCOVERING", "DISCONNECTED">>, <<"CONNECTED", "RECONNECTING">>,
      <<"RECONNECTING", "CONNECTED">>, <<"RECONNECTING", "DISCONNECTED">> }

\* C28: the state of a slot changes only along a listed edge (so a first connect
\* goes Disconnected, Scanning, Connecting, Discovering, Connected).
C28_OnlyListedEdges ==
    [][ /\ s_keyboard'.state # s_keyboard.state
              => <<s_keyboard.state, s_keyboard'.state>> \in ListedEdges
        /\ s_mouse'.state # s_mouse.state
              => <<s_mouse.state, s_mouse'.state>> \in ListedEdges
      ]_vars


(* ----- C29 ---------------------------------------------------------------- *)
\* C29: the s_scanning flag is never left true while no scan is running: once
\* start_scan has returned to the task loop, a true flag means a scan that the
\* radio is really running (so that a Disconnected slot with no connect pending
\* gets a scan, the loop starting one whenever the flag is false).
C29_FlagMeansScan ==
    (ble_task = "loop" /\ s_scanning) => scan_active


(* ----- C30 ---------------------------------------------------------------- *)
\* C30: while a slot is Reconnecting, its delay is BLE_RECONNECT_INITIAL_MS
\* doubled once per failed attempt since the last connection and capped at
\* BLE_RECONNECT_MAX_MS: 1000 ms before the first attempt (so also whenever the
\* slot enters Reconnecting after a successful connection), min(1000 * 2^k, 30000)
\* after the k-th consecutive failure, and always within [1000, 30000].
C30_BackoffSchedule ==
    \A d \in {"KBD", "MOU"} :
        Dev(d).state = "RECONNECTING" =>
            /\ Dev(d).reconnect_delay_ms =
                   Min(BLE_RECONNECT_INITIAL_MS * 2^(Dev(d).failures), BLE_RECONNECT_MAX_MS)
            /\ Dev(d).reconnect_delay_ms >= BLE_RECONNECT_INITIAL_MS
            /\ Dev(d).reconnect_delay_ms <= BLE_RECONNECT_MAX_MS


(* ----- C31 ---------------------------------------------------------------- *)
\* a step of task_loop's health check on slot d: the slot leaves Connected for
\* Reconnecting while the disconnect callback has not run
SilentDisconnectStep(d) ==
    /\ Dev(d).state = "CONNECTED" /\ Dev(d).link = "lost"
    /\ Dev(d)'.state = "RECONNECTING" /\ Dev(d)'.link = "lost"

\* C31: a silent disconnect found by the health check leaves the slot as the
\* disconnect callback would have left it: Reconnecting, bonded peer and device
\* type kept, attempt counter 0, backoff 1000 ms, and prev_keys, prev_modifiers
\* and prev_buttons zeroed.
C31_HealthCheckAsDisconnect ==
    [][\A d \in {"KBD", "MOU"} :
          SilentDisconnectStep(d) =>
              [Dev(d)' EXCEPT !.link = "down"] = Disconnected(Dev(d))]_vars


(* ----- peers with several input characteristics, connecting and reconnecting *)
MaxSubscribeFailures == 1
SubscribePeers == {"B", "N", "T"}

NextSubscribe ==
    \/ \E a \in SubscribePeers : onResult([addr |-> a, hid |-> TRUE])
    \/ onScanEnd \/ PendingConnect \/ start_scan \/ start_scan_return
    \/ \E d \in {"KBD", "MOU"} :
          \/ try_connect_return(d)
          \/ LinkDrop(d) \/ onDisconnect(d) \/ HealthCheck(d) \/ onConnect(d)
          \/ handle_reconnection(d) \/ try_reconnect_return(d, MaxSubscribeFailures)

SpecSubscribe == Init /\ [][NextSubscribe]_vars

(* ----- C32 ---------------------------------------------------------------- *)
\* C32: a Connected slot is subscribed to exactly one input characteristic: a
\* keyboard that try_connect put in Boot Protocol mode to Boot Keyboard Input, a
\* keyboard whose Protocol Mode cannot be written to one HID Report, a mouse to
\* one HID Report or to Boot Mouse Input.
C32_OneInputCharacteristic ==
    \A d \in {"KBD", "MOU"} :
        Dev(d).state = "CONNECTED" =>
            LET chars == Dev(d).subscribed
                hid_service == Peer(Dev(d).bonded_addr)
                reports == {hid_service.reports[i] : i \in DOMAIN hid_service.reports}
            IN  /\ Cardinality(chars) = 1
                /\ (Dev(d).is_keyboard /\ Dev(d).boot_protocol) => chars = {"boot_kbd"}
                /\ (Dev(d).is_keyboard /\ ~hid_service.proto_writable) => chars \subseteq reports
                /\ Dev(d).is_mouse => chars \subseteq reports \cup {"boot_mouse"}


(* ----- C33 ---------------------------------------------------------------- *)
\* a step of task_loop that takes the pending connect and runs try_connect up to
\* the slot assignment
TryConnectStep == s_pending_connect # "none" /\ s_pending_connect' = "none"

Other(d) == IF d = "KBD" THEN "MOU" ELSE "KBD"

\* the slot of the one kind detect_device_type found for the pending peer, or
\* "none" when it found no kind or both
DetectedSlot ==
    LET detected == detect_device_type(Peer(s_pending_connect))
    IN  IF detected.is_keyboard /\ ~detected.is_mouse THEN "KBD"
        ELSE IF detected.is_mouse /\ ~detected.is_keyboard THEN "MOU"
        ELSE "none"

\* C33: try_connect gives the new peer only to a slot that is Disconnected and
\* leaves the other slot alone; a slot that is Connected or Reconnecting never
\* changes its peer; and when the slot of the peer's detected kind is occupied
\* while the other slot is free, both slots stay as they are.
C33_AssignOnlyFreeSlot ==
    [][/\ \A d \in {"KBD", "MOU"} :
             Dev(d).state \in {"CONNECTED", "RECONNECTING"} => Dev(d)'.peer = Dev(d).peer
       /\ TryConnectStep =>
             /\ \A d \in {"KBD", "MOU"} :
                   Dev(d)' # Dev(d) =>
                       /\ Dev(d).state = "DISCONNECTED"
                       /\ Dev(d)'.peer = s_pending_connect
                       /\ Dev(Other(d))' = Dev(Other(d))
             /\ \A d \in {"KBD", "MOU"} :
                   (/\ DetectedSlot = d
                    /\ Dev(d).state # "DISCONNECTED"
                    /\ Dev(Other(d)).state = "DISCONNECTED")
                   => UNCHANGED <<s_keyboard, s_mouse>>]_vars


\* a second keyboard was skipped while the keyboard slot was taken and the mouse
\* slot free
C33_Witness ==
    /\ last_skipped = "N"
    /\ s_keyboard.state \in {"CONNECTED", "RECONNECTING"} /\ s_keyboard.peer = "B"
    /\ s_mouse.state = "DISCONNECTED"


(* ----- C34 ---------------------------------------------------------------- *)
\* C34: the advertisement of a Reconnecting slot's bonded peer stops the scan
\* and makes the slot's next attempt due at once, and it stays due until
\* task_loop, at its loop, starts a reconnect attempt for the slot: no other step
\* moves reconnect_next_ms on.
C34_ImmediateReconnect ==
    [][\A d \in {"KBD", "MOU"} :
          /\ (~Dev(d).triggered /\ Dev(d)'.triggered) => ~scan_active'
          /\ (Dev(d).triggered /\ ~Dev(d)'.triggered) =>
                 (ble_task = "loop" /\ ble_task' = d)]_vars


(* ----- C40 ---------------------------------------------------------------- *)
\* C40: a client object is deleted at most once and none of its methods is
\* called after it was deleted; a Disconnected slot holds no client, and a
\* Connected slot holds a client that was not deleted.
C40_ClientLifetime ==
    \A d \in {"KBD", "MOU"} :
        /\ Dev(d).deleted <= 1
        /\ ~Dev(d).stale_use
        /\ Dev(d).state = "DISCONNECTED" => ~Dev(d).client
        /\ Dev(d).state = "CONNECTED" => (Dev(d).client /\ Dev(d).deleted = 0)


(* ----- C39 ---------------------------------------------------------------- *)
\* C39: while task_loop is inside a connect attempt (try_connect from the slot
\* assignment on, or try_reconnect), no scan is running.
C39_NoConnectWhileScanning ==
    ble_task \in {"connect_KBD", "connect_MOU", "KBD", "MOU"} => ~scan_active


(* ----- C35 ---------------------------------------------------------------- *)
\* C35: a Listen frame is abandoned at its start-bit wait only when the line did
\* not go low within the wait: a Listen that stored no data has a timeout or a
\* bit error behind it, never a wait_for_state that found the line at its target.
C35_TimeoutOnlyIfNotReached ==
    (pc = "end_iter" /\ frame.op = "listen" /\ frame.data = -1) => frame.err # "none"


(* ----- C36 ---------------------------------------------------------------- *)
\* C36: the keyboard and the mouse never hold the same ADB address, so a command
\* is never addressed to both emulators.
C36_DistinctAddresses ==
    kbd_address # mouse_address


\* C37: has_data being true implies that device's Talk R0 produces a response:
\* every Talk R0 step addressed to a device whose has_data was true when the
\* command was handled sends data, for every content of its queue.
\* Refuted: has_data counts a queued mouse event, handle_talk answers only when
\* the drained events left a movement or a changed button, so a queued event with
\* zero deltas and an unchanged button raises SRQ and its Talk R0 sends nothing.
C37_HasDataMeansResponse ==
    [][/\ KbdDrainStep /\ kbd_has_data => frame'.resp # -1
       /\ MouseDrainStep /\ mouse_has_data => frame'.resp # -1]_vars


\* C38: every mouse button press pushed to the mouse queue is seen by the host:
\* when a Talk R0 of the mouse drains a queue holding an event that changes the
\* button from released to pressed, its response carries the button bit as pressed
\* (bit 15 = 0) or the button is still held after it, so that a later response does.
\* Refuted: process_queue folds the whole queue into one button state before the
\* response is built, so a press drained together with its release is answered
\* with the released bit and is gone.
PressQueued(q, pressed) ==
    \E i \in 1..Len(q) :
        q[i].button /\ ~(IF i = 1 THEN pressed ELSE q[i - 1].button)

C38_PressSeenByHost ==
    [][MouseDrainStep /\ PressQueued(mouse_queue, button_pressed)
         => \/ frame'.resp # -1 /\ frame'.resp < 32768
            \/ button_pressed']_vars

====
